---- MODULE Spec2Model ----
(***************************************************************************)
(* A model of the doctown pipeline: the path sanitizer, the arena-backed    *)
(* sandbox builder, the token-bounded chunker, the line parser, the parser *)
(* registry, the embedding client and batcher, k-means and the docpack     *)
(* writer and reader.                                                      *)
(*                                                                         *)
(* Text is modelled as a sequence of one-character strings, bytes as a     *)
(* sequence of small naturals.  Every component has its own specification  *)
(* (SpecPath, SpecSandbox, SpecChunk, SpecParse, ...); the variables of    *)
(* the other components stay at their idle values.                         *)
(***************************************************************************)
EXTENDS Integers, Sequences, FiniteSets, TLC

VARIABLES
    \* ---- PathSanitizer (security/path.rs)
    raw_path,        \* the argument of the call
    allow_hidden,    \* the policy flag of sanitize_with_options
    entry_point,     \* "none" | "sanitize" | "sanitize_with_options"
    sanitized,       \* the Result the call returned (Pending before the call)
    \* ---- SandboxBuilder / Sandbox (sandbox/mod.rs)
    phase,           \* "builder" | "sandbox" | "dropped": who owns arena and index
    arena,           \* Vec<u8>
    index,           \* HashMap<String, FileEntry>, as a set of FileEntry keyed by virtual_path
    max_file_size,
    max_total_size,
    last,            \* the last call on the builder and what it returned
    written,         \* ghost: virtual path -> bytes of the last successful add_file
    dead_bytes,      \* ghost: bytes of entries overwritten by a duplicate path
    \* ---- chunker (chunker/splitter.rs)
    units,           \* Vec<SemanticUnit>, the argument
    max_tokens,      \* the argument
    chunks,          \* Vec<Chunk>, the value returned
    chunked,         \* whether chunk_semantic_units has returned
    \* ---- UnknownParser (parser/unknown.rs)
    parse_path,      \* the path argument of parse
    parse_bytes,     \* the bytes argument of parse
    parse_result,    \* the ParseResult returned
    parsed,          \* whether parse has returned
    \* ---- ParserRegistry (parser/registry.rs)
    registry,        \* [fallback, map]: map is HashMap<String, Box<dyn Parser>> as key/value pairs
    registered,      \* ghost: the register calls made so far, in order
    select_path,     \* the argument of the last select
    selected,        \* the parser the last select returned ("none" before the first)
    \* ---- EmbeddingClient (embedder/client.rs)
    embed_texts,     \* the argument of embed
    response,        \* what the network and the server did with the request
    embed_result,    \* the Result embed returned (EmbedPending before the call)
    \* ---- Batcher (embedder/batcher.rs)
    batching,        \* [batch_size, items, batches, state]: one Batcher and its split call
    \* ---- kmeans (clusterer/kmeans.rs)
    embeddings,      \* the vectors handed to kmeans
    k,               \* the number of clusters asked for
    max_iters,
    seed,
    runs,            \* run number -> the locals of that call of kmeans and where it stands
    \* ---- DocpackWriter / DocpackReader (docpack.rs, db.rs)
    writer_db,       \* the writer's in-memory DocpackDB: one set of rows per table
    manifest,        \* the writer's Manifest
    wpc,             \* where write_to_file stands ("idle" between calls)
    write_result,    \* what the last write_to_file returned: "none" | "ok" | "err"
    disk,            \* the output path, the temporary database next to it, the reader's extract
    reader,          \* what DocpackReader::open returned
    submitted,       \* ghost: chunk id -> the float vector last handed to insert_embedding
    db_at_write,     \* ghost: the writer's rows when write_to_file was last called
    used             \* ghost: how many inserts and writes were made

pathVars == <<raw_path, allow_hidden, entry_point, sanitized>>
sandboxVars == <<phase, arena, index, max_file_size, max_total_size, last, written, dead_bytes>>
chunkVars == <<units, max_tokens, chunks, chunked>>
parseVars == <<parse_path, parse_bytes, parse_result, parsed>>
ingestVars == <<pathVars, sandboxVars, chunkVars>>
registryVars == <<registry, registered, select_path, selected>>
embedVars == <<embed_texts, response, embed_result, batching>>
kmeansVars == <<embeddings, k, max_iters, seed, runs>>
docpackVars == <<writer_db, manifest, wpc, write_result, disk, reader, submitted, db_at_write, used>>
analysisVars == <<parseVars, registryVars, embedVars, kmeansVars, docpackVars>>
vars == <<ingestVars, analysisVars>>

(***************************************************************************)
(* Generic helpers on sequences.                                           *)
(***************************************************************************)
SeqsUpTo(S, n) == UNION {[1..len -> S] : len \in 0..n}

\* str::split(sep): the pieces between separators, empty pieces included.
Split(s, sep) ==
    LET at == SelectSeq([i \in 1..Len(s) |-> i], LAMBDA i : s[i] = sep)
        n == Len(at)
    IN  [p \in 1..(n + 1) |->
            SubSeq(s, IF p = 1 THEN 1 ELSE at[p - 1] + 1,
                      IF p = n + 1 THEN Len(s) ELSE at[p] - 1)]

RECURSIVE Join(_, _)
\* [T]::join(sep)
Join(parts, sep) ==
    IF parts = <<>> THEN <<>>
    ELSE IF Len(parts) = 1 THEN parts[1]
    ELSE parts[1] \o sep \o Join(Tail(parts), sep)

StartsWith(s, p) == Len(s) >= Len(p) /\ SubSeq(s, 1, Len(p)) = p

(***************************************************************************)
(* PathSanitizer                                                           *)
(***************************************************************************)
MaxPathLen == 7
PathChars == {"/", ".", "a", "b"}
RawPaths == SeqsUpTo(PathChars, MaxPathLen)

Ok(v) == [ok |-> TRUE, val |-> v, err |-> "none", msg |-> "none"]
Err(kind, why) == [ok |-> FALSE, val |-> <<>>, err |-> kind, msg |-> why]
Pending == [ok |-> FALSE, val |-> <<>>, err |-> "pending", msg |-> "none"]

Comp(kind, part) == [kind |-> kind, part |-> part]

RECURSIVE BodyComponents_KeepEmpty(_)
\* Mutant: an empty piece (a repeated or trailing separator) counts as a component.
BodyComponents_KeepEmpty(pieces) ==
    IF pieces = <<>> THEN <<>>
    ELSE LET p == Head(pieces)
             rest == BodyComponents_KeepEmpty(Tail(pieces))
         IN  IF p = <<".">> THEN rest
             ELSE IF p = <<".", ".">> THEN <<Comp("ParentDir", p)>> \o rest
             ELSE <<Comp("Normal", p)>> \o rest

RECURSIVE BodyComponents(_)
\* Components::parse_next_component on a Unix host: an empty piece (a repeated
\* or trailing separator) and a "." piece yield no component.
BodyComponents(pieces) ==
    IF pieces = <<>> THEN <<>>
    ELSE LET p == Head(pieces)
             rest == BodyComponents(Tail(pieces))
         IN  IF p = <<>> \/ p = <<".">> THEN rest
             ELSE IF p = <<".", ".">> THEN <<Comp("ParentDir", p)>> \o rest
             ELSE <<Comp("Normal", p)>> \o rest

\* Path::new(raw).components() on a Unix host (no Prefix component exists there):
\* a leading "/" is RootDir, a leading "." piece is CurDir, later "." pieces vanish.
Components(raw) ==
    IF raw = <<>> THEN <<>>
    ELSE IF raw[1] = "/"
         THEN <<Comp("RootDir", <<"/">>)>> \o BodyComponents(Split(Tail(raw), "/"))
    ELSE IF raw[1] = "." /\ (Len(raw) = 1 \/ raw[2] = "/")
         THEN <<Comp("CurDir", <<".">>)>> \o BodyComponents(Split(Tail(raw), "/"))
    ELSE BodyComponents(Split(raw, "/"))

RECURSIVE SanitizeLoop_SkipParent(_, _, _)
\* Mutant: a ".." component is kept like a normal one instead of rejected.
SanitizeLoop_SkipParent(comps, hidden_ok, components) ==
    IF comps = <<>>
    THEN IF components = <<>> THEN Err("InvalidPath", "No valid components")
         ELSE Ok(Join(components, <<"/">>))
    ELSE LET c == Head(comps) IN
         CASE c.kind \in {"Prefix", "RootDir"} -> Err("InvalidPath", "Absolute path not allowed")
           [] c.kind = "CurDir" -> SanitizeLoop_SkipParent(Tail(comps), hidden_ok, components)
           [] c.kind \in {"Normal", "ParentDir"} ->
                IF ~hidden_ok /\ StartsWith(c.part, <<".">>)
                THEN Err("InvalidPath", "Hidden files not allowed")
                ELSE SanitizeLoop_SkipParent(Tail(comps), hidden_ok, Append(components, c.part))

RECURSIVE SanitizeLoop(_, _, _)
\* The for loop of sanitize_with_options and the two statements after it.
SanitizeLoop(comps, hidden_ok, components) ==
    IF comps = <<>>
    THEN IF components = <<>> THEN Err("InvalidPath", "No valid components")
         ELSE Ok(Join(components, <<"/">>))
    ELSE LET c == Head(comps) IN
         CASE c.kind \in {"Prefix", "RootDir"} -> Err("InvalidPath", "Absolute path not allowed")
           [] c.kind = "ParentDir" -> Err("InvalidPath", "Parent directory traversal not allowed")
           [] c.kind = "CurDir" -> SanitizeLoop(Tail(comps), hidden_ok, components)
           [] c.kind = "Normal" ->
                IF ~hidden_ok /\ StartsWith(c.part, <<".">>)
                THEN Err("InvalidPath", "Hidden files not allowed")
                ELSE SanitizeLoop(Tail(comps), hidden_ok, Append(components, c.part))

sanitize_with_options(raw, hidden_ok) ==
    IF raw = <<>> THEN Err("InvalidPath", "Empty path")
    ELSE SanitizeLoop(Components(raw), hidden_ok, <<>>)

sanitize(raw) == sanitize_with_options(raw, TRUE)

IdlePath ==
    /\ raw_path = <<>>
    /\ allow_hidden = TRUE
    /\ entry_point = "none"
    /\ sanitized = Pending

InitPathVars ==
    /\ raw_path \in RawPaths
    /\ allow_hidden = TRUE
    /\ entry_point = "none"
    /\ sanitized = Pending

CallSanitize ==
    /\ entry_point = "none"
    /\ entry_point' = "sanitize"
    /\ sanitized' = sanitize(raw_path)
    /\ UNCHANGED <<raw_path, allow_hidden>>

CallSanitizeWithOptions ==
    /\ entry_point = "none"
    /\ \E h \in BOOLEAN :
        /\ allow_hidden' = h
        /\ sanitized' = sanitize_with_options(raw_path, h)
    /\ entry_point' = "sanitize_with_options"
    /\ UNCHANGED raw_path

(***************************************************************************)
(* SandboxBuilder / Sandbox                                                *)
(***************************************************************************)
MaxDataLen == 2        \* longest byte string handed to add_file
MaxArena == 3          \* the model stops appending once the arena holds this many bytes
SmallFileCap == 1      \* the value the model passes to max_file_size(size)
SmallTotalCap == 2     \* the value the model passes to max_total_size(size)
MaxEntries == 2        \* most entries of a downloaded archive

Bytes == {1, 2}
Data == SeqsUpTo(Bytes, MaxDataLen)

DefaultMaxFileSize == 50 * 1024 * 1024
DefaultMaxTotalSize == 500 * 1024 * 1024

\* The raw paths the model hands to add_file: two spellings of "a", "b",
\* a traversal, an absolute path and the empty path.
AddPaths == { <<"a">>, <<".", "/", "a">>, <<"b">>,
              <<".", ".", "/", "a">>, <<"/", "a">>, <<>> }

FileEntry(offset, length, virtual_path) ==
    [offset |-> offset, length |-> length, virtual_path |-> virtual_path]

\* HashMap::insert: the entry under an equal key is replaced.
MapInsert(map, key, value) ==
    {kv \in map : kv.key # key} \cup {[key |-> key, value |-> value]}

MapHas(map, key) == \E kv \in map : kv.key = key
MapGet(map, key) == (CHOOSE kv \in map : kv.key = key).value

\* SandboxBuilder::new()
NewBuilder ==
    [arena |-> <<>>, index |-> {},
     max_file_size |-> DefaultMaxFileSize, max_total_size |-> DefaultMaxTotalSize,
     written |-> {}, dead_bytes |-> 0]

SbOk == [kind |-> "Ok", size |-> 0, max |-> 0]
SbErr(kind) == [kind |-> kind, size |-> 0, max |-> 0]
FileTooLarge(size, max) == [kind |-> "FileTooLarge", size |-> size, max |-> max]

\* Mutant: the total-size check rejects a file that fills the arena exactly.
add_file_StrictTotal(b, raw, data) ==
    LET s == sanitize(raw) IN
    IF ~s.ok THEN [b |-> b, res |-> SbErr("InvalidPath")]
    ELSE IF Len(data) > b.max_file_size
    THEN [b |-> b, res |-> FileTooLarge(Len(data), b.max_file_size)]
    ELSE LET new_total == Len(b.arena) + Len(data) IN
    IF new_total >= b.max_total_size
    THEN [b |-> b, res |-> FileTooLarge(new_total, b.max_total_size)]
    ELSE LET virtual_path == s.val
             lost == IF MapHas(b.index, virtual_path)
                     THEN MapGet(b.index, virtual_path).length ELSE 0
         IN  [b |-> [b EXCEPT
                      !.arena = b.arena \o data,
                      !.index = MapInsert(b.index, virtual_path,
                                          FileEntry(Len(b.arena), Len(data), virtual_path)),
                      !.written = MapInsert(b.written, virtual_path, data),
                      !.dead_bytes = b.dead_bytes + lost],
              res |-> SbOk]

\* Mutant: the index is keyed by the raw path instead of the sanitized one.
add_file_RawKey(b, raw, data) ==
    LET s == sanitize(raw) IN
    IF ~s.ok THEN [b |-> b, res |-> SbErr("InvalidPath")]
    ELSE IF Len(data) > b.max_file_size
    THEN [b |-> b, res |-> FileTooLarge(Len(data), b.max_file_size)]
    ELSE LET new_total == Len(b.arena) + Len(data) IN
    IF new_total > b.max_total_size
    THEN [b |-> b, res |-> FileTooLarge(new_total, b.max_total_size)]
    ELSE LET lost == IF MapHas(b.index, raw) THEN MapGet(b.index, raw).length ELSE 0
         IN  [b |-> [b EXCEPT
                      !.arena = b.arena \o data,
                      !.index = MapInsert(b.index, raw,
                                          FileEntry(Len(b.arena), Len(data), s.val)),
                      !.written = MapInsert(b.written, s.val, data),
                      !.dead_bytes = b.dead_bytes + lost],
              res |-> SbOk]

\* SandboxBuilder::add_file on builder b: the builder afterwards and the Result.
\* written and dead_bytes are ghost fields: they record what the caller passed,
\* the code keeps neither.
\* Mutant: the data is appended to the arena before the size checks.
add_file_AppendFirst(b, raw, data) ==
    LET s == sanitize(raw) IN
    IF ~s.ok THEN [b |-> b, res |-> SbErr("InvalidPath")]
    ELSE IF Len(data) > b.max_file_size
    THEN [b |-> [b EXCEPT !.arena = b.arena \o data],
          res |-> FileTooLarge(Len(data), b.max_file_size)]
    ELSE LET new_total == Len(b.arena) + Len(data) IN
    IF new_total > b.max_total_size
    THEN [b |-> [b EXCEPT !.arena = b.arena \o data],
          res |-> FileTooLarge(new_total, b.max_total_size)]
    ELSE LET virtual_path == s.val
             offset == Len(b.arena)
             length == Len(data)
             lost == IF MapHas(b.index, virtual_path)
                     THEN MapGet(b.index, virtual_path).length ELSE 0
         IN  [b |-> [b EXCEPT
                      !.arena = b.arena \o data,
                      !.index = MapInsert(b.index, virtual_path,
                                          FileEntry(offset, length, virtual_path)),
                      !.written = MapInsert(b.written, virtual_path, data),
                      !.dead_bytes = b.dead_bytes + lost],
              res |-> SbOk]

add_file(b, raw, data) ==
    LET s == sanitize(raw) IN
    IF ~s.ok THEN [b |-> b, res |-> SbErr("InvalidPath")]
    ELSE IF Len(data) > b.max_file_size
    THEN [b |-> b, res |-> FileTooLarge(Len(data), b.max_file_size)]
    ELSE LET new_total == Len(b.arena) + Len(data) IN
    IF new_total > b.max_total_size
    THEN [b |-> b, res |-> FileTooLarge(new_total, b.max_total_size)]
    ELSE LET virtual_path == s.val
             offset == Len(b.arena)
             length == Len(data)
             lost == IF MapHas(b.index, virtual_path)
                     THEN MapGet(b.index, virtual_path).length ELSE 0
         IN  [b |-> [b EXCEPT
                      !.arena = b.arena \o data,
                      !.index = MapInsert(b.index, virtual_path,
                                          FileEntry(offset, length, virtual_path)),
                      !.written = MapInsert(b.written, virtual_path, data),
                      !.dead_bytes = b.dead_bytes + lost],
              res |-> SbOk]

\* ---- the archive ingest_github_repo downloads
ZipEntry(name, data, fault) == [name |-> name, data |-> data, fault |-> fault]

\* The entries the model puts in an archive: files under the top-level
\* directory "r/", the directory entry itself, a traversal, a name without
\* any "/", an entry the ZIP reader cannot open and one it cannot read.
EntryPool ==
    { ZipEntry(<<"r", "/", "a">>, <<1>>, "none"),
      ZipEntry(<<"r", "/", "a">>, <<2, 1>>, "none"),
      ZipEntry(<<"r", "/">>, <<>>, "none"),
      ZipEntry(<<"r", "/", ".", ".", "/", "a">>, <<1>>, "none"),
      ZipEntry(<<"b">>, <<2>>, "none"),
      ZipEntry(<<"r", "/", "b">>, <<1>>, "by_index"),
      ZipEntry(<<"r", "/", "b">>, <<1>>, "read_to_end") }

Archives == SeqsUpTo(EntryPool, MaxEntries)

\* What can go wrong before the first entry is looked at.
FetchFaults == {"none", "request", "status", "body", "zip"}

\* ZipFile::is_dir: the name ends with a separator.
is_dir(name) == name # <<>> /\ name[Len(name)] = "/"

\* raw_path.split_once('/').map(|(_, rest)| rest).unwrap_or(&raw_path)
stripped_path(name) ==
    IF \E i \in 1..Len(name) : name[i] = "/"
    THEN LET i == CHOOSE i \in 1..Len(name) :
                     name[i] = "/" /\ \A j \in 1..(i - 1) : name[j] # "/"
         IN  SubSeq(name, i + 1, Len(name))
    ELSE name

RECURSIVE IngestLoop(_, _)
\* The for loop of ingest_github_repo over the archive's entries.
IngestLoop(b, entries) ==
    IF entries = <<>> THEN [b |-> b, res |-> SbOk]
    ELSE LET file == Head(entries) IN
         IF file.fault = "by_index" THEN [b |-> b, res |-> SbErr("ZipParseFailed")]
         ELSE IF is_dir(file.name) THEN IngestLoop(b, Tail(entries))
         ELSE IF stripped_path(file.name) = <<>> THEN IngestLoop(b, Tail(entries))
         ELSE IF file.fault = "read_to_end" THEN [b |-> b, res |-> SbErr("ZipParseFailed")]
         ELSE LET r == add_file(b, stripped_path(file.name), file.data) IN
              IF r.res.kind # "Ok" THEN r
              ELSE IngestLoop(r.b, Tail(entries))

\* SandboxBuilder::ingest_github_repo(self, ..): Ok(self) or the error; the
\* builder was moved into the call, so an error leaves the caller none.
ingest_github_repo(b, fetch, archive) ==
    IF fetch \in {"request", "status", "body"} THEN [b |-> b, res |-> SbErr("DownloadFailed")]
    ELSE IF fetch = "zip" THEN [b |-> b, res |-> SbErr("ZipParseFailed")]
    ELSE IngestLoop(b, archive)

\* ---- Sandbox read operations, on an arena and an index
\* Mutant: the slice starts at the beginning of the arena.
get_FromStart(ar, ix, virtual_path) ==
    IF MapHas(ix, virtual_path)
    THEN [some |-> TRUE, bytes |-> SubSeq(ar, 1, MapGet(ix, virtual_path).length)]
    ELSE [some |-> FALSE, bytes |-> <<>>]

get(ar, ix, virtual_path) ==
    IF MapHas(ix, virtual_path)
    THEN LET e == MapGet(ix, virtual_path)
         IN  [some |-> TRUE, bytes |-> SubSeq(ar, e.offset + 1, e.offset + e.length)]
    ELSE [some |-> FALSE, bytes |-> <<>>]

list(ix) == {kv.value : kv \in ix}

\* str::trim_end_matches(c): s without the run of c at its end
trim_end_matches(s, c) ==
    LET keep == {i \in 1..Len(s) : s[i] # c}
        n == IF keep = {} THEN 0 ELSE CHOOSE i \in keep : \A j \in keep : j <= i
    IN  SubSeq(s, 1, n)

\* Mutant: the prefix is the directory name without the '/' after it.
walk_prefix_NoSlash(ix, dir_prefix) ==
    LET normalized_prefix ==
            IF dir_prefix = <<>> THEN <<>>
            ELSE trim_end_matches(dir_prefix, "/")
    IN  {e \in list(ix) :
            normalized_prefix = <<>> \/ StartsWith(e.virtual_path, normalized_prefix)}

\* Sandbox::walk_prefix; the Vec it collects is in the HashMap's order, so
\* the result is the set of its entries.
walk_prefix(ix, dir_prefix) ==
    LET normalized_prefix ==
            IF dir_prefix = <<>> THEN <<>>
            ELSE trim_end_matches(dir_prefix, "/") \o <<"/">>
    IN  {e \in list(ix) :
            normalized_prefix = <<>> \/ StartsWith(e.virtual_path, normalized_prefix)}
file_count(ix) == Cardinality(ix)

\* Mutant: the size without the last byte.
total_size_Short(ar) == IF ar = <<>> THEN 0 ELSE Len(ar) - 1

total_size(ar) == Len(ar)

\* ---- the state machine
NoCall == [op |-> "none", res |-> "none", raw |-> <<>>, len |-> 0, before |-> 0,
           fetch |-> "none", archive |-> <<>>, found |-> {}]

Builder ==
    [arena |-> arena, index |-> index,
     max_file_size |-> max_file_size, max_total_size |-> max_total_size,
     written |-> written, dead_bytes |-> dead_bytes]

SetBuilder(b) ==
    /\ arena' = b.arena
    /\ index' = b.index
    /\ max_file_size' = b.max_file_size
    /\ max_total_size' = b.max_total_size
    /\ written' = b.written
    /\ dead_bytes' = b.dead_bytes

InitSandboxVars ==
    /\ phase = "builder"
    /\ arena = NewBuilder.arena
    /\ index = NewBuilder.index
    /\ max_file_size = NewBuilder.max_file_size
    /\ max_total_size = NewBuilder.max_total_size
    /\ written = NewBuilder.written
    /\ dead_bytes = NewBuilder.dead_bytes
    /\ last = NoCall

\* SandboxBuilder::max_file_size(self, size), while the builder is configured
SetMaxFileSize ==
    /\ phase = "builder" /\ last.op = "none"
    /\ max_file_size' = SmallFileCap
    /\ UNCHANGED <<phase, arena, index, max_total_size, last, written, dead_bytes>>

\* SandboxBuilder::max_total_size(self, size), while the builder is configured
SetMaxTotalSize ==
    /\ phase = "builder" /\ last.op = "none"
    /\ max_total_size' = SmallTotalCap
    /\ UNCHANGED <<phase, arena, index, max_file_size, last, written, dead_bytes>>

\* The files of a small tree: a file named s, files under s/ and s/p/, a
\* file under the sibling s2/, and a traversal that add_file rejects.
TreePaths == { <<"s">>, <<"s", "/", "a">>, <<"s", "/", "p", "/", "b">>,
               <<"s", "2", "/", "a">>, <<".", ".", "/", "a">> }
TreeData == {<<1>>, <<1, 2>>}

\* The arguments of walk_prefix: the empty prefix, s with and without
\* trailing slashes, a nested directory, the sibling and a lone slash.
WalkDirs == { <<>>, <<"s">>, <<"s", "/">>, <<"s", "/", "/">>, <<"s", "/", "p">>,
              <<"s", "2">>, <<"/">> }

AddFileFrom(paths, datas) ==
    /\ phase = "builder"
    /\ \E raw \in paths, data \in datas :
        /\ Len(arena) + Len(data) <= MaxArena
        /\ LET r == add_file(Builder, raw, data) IN
            /\ SetBuilder(r.b)
            /\ last' = [NoCall EXCEPT !.op = "add_file", !.res = r.res.kind,
                                      !.raw = raw, !.len = Len(data),
                                      !.before = Len(arena)]
    /\ UNCHANGED phase

AddFile == AddFileFrom(AddPaths, Data)

AddTreeFile == AddFileFrom(TreePaths, TreeData)

\* Sandbox::walk_prefix(dir_prefix) on the built sandbox
WalkPrefix ==
    /\ phase = "sandbox"
    /\ \E dir_prefix \in WalkDirs :
        last' = [NoCall EXCEPT !.op = "walk_prefix", !.raw = dir_prefix,
                               !.found = walk_prefix(index, dir_prefix)]
    /\ UNCHANGED <<phase, arena, index, max_file_size, max_total_size, written, dead_bytes>>

RECURSIVE ArchiveBytes(_)
ArchiveBytes(entries) ==
    IF entries = <<>> THEN 0 ELSE Len(Head(entries).data) + ArchiveBytes(Tail(entries))

\* Mutant: ingestion works on a borrowed builder, which outlives a failure
\* with the entries added before it.
Ingest_KeepsBuilder ==
    /\ phase = "builder"
    /\ \E fetch \in FetchFaults, archive \in Archives :
        /\ fetch # "none" => archive = <<>>
        /\ Len(arena) + ArchiveBytes(archive) <= MaxArena
        /\ LET r == ingest_github_repo(Builder, fetch, archive) IN
            /\ SetBuilder(r.b)
            /\ phase' = "builder"
            /\ last' = IF r.res.kind = "Ok"
                       THEN [NoCall EXCEPT !.op = "ingest", !.res = "Ok"]
                       ELSE [NoCall EXCEPT !.op = "ingest", !.res = r.res.kind,
                                           !.before = Len(arena),
                                           !.fetch = fetch, !.archive = archive]

Ingest ==
    /\ phase = "builder"
    /\ \E fetch \in FetchFaults, archive \in Archives :
        /\ fetch # "none" => archive = <<>>
        /\ Len(arena) + ArchiveBytes(archive) <= MaxArena
        /\ LET r == ingest_github_repo(Builder, fetch, archive) IN
            IF r.res.kind = "Ok"
            THEN /\ SetBuilder(r.b)
                 /\ phase' = "builder"
                 /\ last' = [NoCall EXCEPT !.op = "ingest", !.res = "Ok"]
            ELSE /\ SetBuilder([NewBuilder EXCEPT !.max_file_size = max_file_size,
                                                  !.max_total_size = max_total_size])
                 /\ phase' = "dropped"
                 /\ last' = [NoCall EXCEPT !.op = "ingest", !.res = r.res.kind,
                                           !.before = Len(arena),
                                           !.fetch = fetch, !.archive = archive]

\* SandboxBuilder::build(self): arena and index move into the Sandbox.
Build ==
    /\ phase = "builder"
    /\ phase' = "sandbox"
    /\ UNCHANGED <<arena, index, max_file_size, max_total_size, last, written, dead_bytes>>


(***************************************************************************)
(* Chunker                                                                 *)
(***************************************************************************)
MaxUnits == 3          \* most semantic units in one call
MaxLines == 2          \* most lines in one unit's text
MaxBudget == 3         \* largest max_tokens the model passes
MaxTotalLines == 5     \* most lines in all the units of one call

NL == "\n"
CR == "\r"
Xs(n) == [i \in 1..n |-> "x"]

\* Line lengths: 7 bytes estimate to 1 token, 12 bytes to 3.
LineLens == {7, 12}
LineTexts == {Xs(n) : n \in LineLens}

\* Unit texts: up to MaxLines lines joined by a newline, and the single-line
\* texts (the empty one included) with the newline the line parser re-attaches.
Texts ==
    {Join(ls, <<NL>>) : ls \in SeqsUpTo(LineTexts, MaxLines)}
    \cup {l \o <<NL>> : l \in LineTexts \cup {<<>>}}

HasNewline(text) == \E i \in 1..Len(text) : text[i] = NL

KindOf(text) ==
    IF text # <<>> /\ text[Len(text)] = NL THEN "Unknown"
    ELSE IF HasNewline(text) THEN "Blob"
    ELSE "Function"

SemanticUnit(text, start_offset, kind) ==
    [text |-> text, start_offset |-> start_offset,
     end_offset |-> start_offset + Len(text), kind |-> kind]

RECURSIVE MakeUnits(_, _)
\* Units in file order, each starting where the previous one ends.
MakeUnits(texts, start) ==
    IF texts = <<>> THEN <<>>
    ELSE <<SemanticUnit(Head(texts), start, KindOf(Head(texts)))>>
         \o MakeUnits(Tail(texts), start + Len(Head(texts)))

Max2(a, b) == IF a >= b THEN a ELSE b

\* (text.len() / 4).max(1)
estimate_tokens(text) == Max2(Len(text) \div 4, 1)

\* str::lines(): the pieces between newlines, each line that a newline ends
\* without the carriage return before that newline, and without the empty
\* piece after a final newline.
Lines(text) ==
    LET pieces == Split(text, NL)
        n == Len(pieces)
        StripCR(p) == IF p # <<>> /\ p[Len(p)] = CR THEN SubSeq(p, 1, Len(p) - 1) ELSE p
        terminated == [i \in 1..(n - 1) |-> StripCR(pieces[i])]
    IN  IF pieces[n] = <<>> THEN terminated ELSE Append(terminated, pieces[n])

\* A Chunk with its ChunkMetadata flattened.  first_unit, last_unit and split
\* are ghost fields: the indices of the input units the chunk was made of, and
\* whether split_large_unit made it.
Chunk(text, token_count, start_offset, end_offset, kinds, unit_count, first, lst, split) ==
    [text |-> text, token_count |-> token_count, start_offset |-> start_offset,
     end_offset |-> end_offset, kinds |-> kinds, unit_count |-> unit_count,
     first_unit |-> first, last_unit |-> lst, split |-> split]

\* Mutant: token_count is the estimate of the joined text.
create_chunk_from_units_JoinedEstimate(batch, token_count, lst) ==
    Chunk(Join([i \in 1..Len(batch) |-> batch[i].text], <<NL, NL>>),
          estimate_tokens(Join([i \in 1..Len(batch) |-> batch[i].text], <<NL, NL>>)),
          IF batch = <<>> THEN 0 ELSE batch[1].start_offset,
          IF batch = <<>> THEN 0 ELSE batch[Len(batch)].end_offset,
          {batch[i].kind : i \in 1..Len(batch)},
          Len(batch),
          lst - Len(batch) + 1, lst, FALSE)

\* batch is a non-empty run of units that ends at index lst.
create_chunk_from_units(batch, token_count, lst) ==
    Chunk(Join([i \in 1..Len(batch) |-> batch[i].text], <<NL, NL>>),
          token_count,
          IF batch = <<>> THEN 0 ELSE batch[1].start_offset,
          IF batch = <<>> THEN 0 ELSE batch[Len(batch)].end_offset,
          {batch[i].kind : i \in 1..Len(batch)},
          Len(batch),
          lst - Len(batch) + 1, lst, FALSE)

\* Mutant: end_offset is the unit's start, the text's length left out.
create_single_chunk_NoLength(text, token_count, kind, start_offset, i) ==
    Chunk(text, token_count, start_offset, start_offset, {kind}, 1, i, i, TRUE)

create_single_chunk(text, token_count, kind, start_offset, i) ==
    Chunk(text, token_count, start_offset, start_offset + Len(text), {kind}, 1, i, i, TRUE)

RECURSIVE SplitLoop(_, _, _, _, _, _, _)
\* The for loop of split_large_unit over the unit's lines, and the flush after it.
SplitLoop(unit, i, M, lines, current_lines, current_tokens, out) ==
    IF lines = <<>>
    THEN IF current_lines # <<>>
         THEN Append(out, create_single_chunk(Join(current_lines, <<NL>>), current_tokens,
                                              unit.kind, unit.start_offset, i))
         ELSE out
    ELSE LET line == Head(lines)
             line_tokens == estimate_tokens(line)
             flushed == Append(out, create_single_chunk(Join(current_lines, <<NL>>),
                                                        current_tokens, unit.kind,
                                                        unit.start_offset, i))
         IN  IF line_tokens > M
             THEN SplitLoop(unit, i, M, Tail(lines), <<>>, 0,
                            Append(IF current_lines # <<>> THEN flushed ELSE out,
                                   create_single_chunk(line, line_tokens, unit.kind,
                                                       unit.start_offset, i)))
             ELSE IF current_tokens + line_tokens > M /\ current_lines # <<>>
             THEN SplitLoop(unit, i, M, Tail(lines), <<line>>, line_tokens, flushed)
             ELSE SplitLoop(unit, i, M, Tail(lines), Append(current_lines, line),
                            current_tokens + line_tokens, out)

\* Mutant: an oversized unit is emitted whole, as one chunk.
split_large_unit_NoSplit(unit, M, i) ==
    <<create_single_chunk(unit.text, estimate_tokens(unit.text), unit.kind,
                          unit.start_offset, i)>>

\* unit is the i-th input unit
split_large_unit(unit, M, i) ==
    LET split_chunks == SplitLoop(unit, i, M, Lines(unit.text), <<>>, 0, <<>>) IN
    IF split_chunks = <<>>
    THEN <<create_single_chunk(unit.text, estimate_tokens(unit.text), unit.kind,
                               unit.start_offset, i)>>
    ELSE split_chunks

RECURSIVE ChunkLoop_NeverFlush(_, _, _, _, _, _)
\* Mutant: a unit that fits joins the batch even when the batch is full.
ChunkLoop_NeverFlush(us, i, M, current_batch, current_tokens, out) ==
    IF i > Len(us)
    THEN IF current_batch # <<>>
         THEN Append(out, create_chunk_from_units(current_batch, current_tokens, i - 1))
         ELSE out
    ELSE LET unit == us[i]
             unit_tokens == estimate_tokens(unit.text)
             flushed == Append(out, create_chunk_from_units(current_batch, current_tokens, i - 1))
         IN  IF unit_tokens > M
             THEN ChunkLoop_NeverFlush(us, i + 1, M, <<>>, 0,
                            (IF current_batch # <<>> THEN flushed ELSE out)
                            \o split_large_unit(unit, M, i))
             ELSE ChunkLoop_NeverFlush(us, i + 1, M, Append(current_batch, unit),
                            current_tokens + unit_tokens, out)

RECURSIVE ChunkLoop_SplitAtBudget(_, _, _, _, _, _)
\* Mutant: a unit whose estimate equals max_tokens is split instead of batched.
ChunkLoop_SplitAtBudget(us, i, M, current_batch, current_tokens, out) ==
    IF i > Len(us)
    THEN IF current_batch # <<>>
         THEN Append(out, create_chunk_from_units(current_batch, current_tokens, i - 1))
         ELSE out
    ELSE LET unit == us[i]
             unit_tokens == estimate_tokens(unit.text)
             flushed == Append(out, create_chunk_from_units(current_batch, current_tokens, i - 1))
         IN  IF unit_tokens >= M
             THEN ChunkLoop_SplitAtBudget(us, i + 1, M, <<>>, 0,
                            (IF current_batch # <<>> THEN flushed ELSE out)
                            \o split_large_unit(unit, M, i))
             ELSE IF current_tokens + unit_tokens > M /\ current_batch # <<>>
             THEN ChunkLoop_SplitAtBudget(us, i + 1, M, <<unit>>, unit_tokens, flushed)
             ELSE ChunkLoop_SplitAtBudget(us, i + 1, M, Append(current_batch, unit),
                            current_tokens + unit_tokens, out)

RECURSIVE ChunkLoop_NoLastFlush(_, _, _, _, _, _)
\* Mutant: the batch left after the last unit is not flushed.
ChunkLoop_NoLastFlush(us, i, M, current_batch, current_tokens, out) ==
    IF i > Len(us)
    THEN out
    ELSE LET unit == us[i]
             unit_tokens == estimate_tokens(unit.text)
             flushed == Append(out, create_chunk_from_units(current_batch, current_tokens, i - 1))
         IN  IF unit_tokens > M
             THEN ChunkLoop_NoLastFlush(us, i + 1, M, <<>>, 0,
                            (IF current_batch # <<>> THEN flushed ELSE out)
                            \o split_large_unit(unit, M, i))
             ELSE IF current_tokens + unit_tokens > M /\ current_batch # <<>>
             THEN ChunkLoop_NoLastFlush(us, i + 1, M, <<unit>>, unit_tokens, flushed)
             ELSE ChunkLoop_NoLastFlush(us, i + 1, M, Append(current_batch, unit),
                            current_tokens + unit_tokens, out)

RECURSIVE ChunkLoop(_, _, _, _, _, _)
\* The for loop of chunk_semantic_units from unit i on, and the flush after it.
ChunkLoop(us, i, M, current_batch, current_tokens, out) ==
    IF i > Len(us)
    THEN IF current_batch # <<>>
         THEN Append(out, create_chunk_from_units(current_batch, current_tokens, i - 1))
         ELSE out
    ELSE LET unit == us[i]
             unit_tokens == estimate_tokens(unit.text)
             flushed == Append(out, create_chunk_from_units(current_batch, current_tokens, i - 1))
         IN  IF unit_tokens > M
             THEN ChunkLoop(us, i + 1, M, <<>>, 0,
                            (IF current_batch # <<>> THEN flushed ELSE out)
                            \o split_large_unit(unit, M, i))
             ELSE IF current_tokens + unit_tokens > M /\ current_batch # <<>>
             THEN ChunkLoop(us, i + 1, M, <<unit>>, unit_tokens, flushed)
             ELSE ChunkLoop(us, i + 1, M, Append(current_batch, unit),
                            current_tokens + unit_tokens, out)

chunk_semantic_units(us, M) ==
    IF us = <<>> THEN <<>> ELSE ChunkLoop(us, 1, M, <<>>, 0, <<>>)

IdleChunk ==
    /\ units = <<>>
    /\ max_tokens = 0
    /\ chunks = <<>>
    /\ chunked = FALSE

RECURSIVE TotalLines(_)
\* How many lines the texts of a call hold together.
TotalLines(texts) ==
    IF texts = <<>> THEN 0 ELSE Len(Lines(Head(texts))) + TotalLines(Tail(texts))

InitChunkVars ==
    /\ units \in {MakeUnits(ts, 0) :
                    ts \in {t \in SeqsUpTo(Texts, MaxUnits) : TotalLines(t) <= MaxTotalLines}}
    /\ max_tokens \in 0..MaxBudget
    /\ chunks = <<>>
    /\ chunked = FALSE

\* A few unit texts of every shape: empty, one short line, one long line, a
\* line with its newline, two lines, and a lone newline.
ShapeTexts ==
    { <<>>, Xs(7), Xs(12), Xs(7) \o <<NL>>, Xs(7) \o <<NL>> \o Xs(12), <<NL>> }

InitShapeVars ==
    /\ units \in {MakeUnits(ts, 0) : ts \in SeqsUpTo(ShapeTexts, MaxUnits)}
    /\ max_tokens \in 0..MaxBudget
    /\ chunks = <<>>
    /\ chunked = FALSE

CallChunker ==
    /\ ~chunked
    /\ chunks' = chunk_semantic_units(units, max_tokens)
    /\ chunked' = TRUE
    /\ UNCHANGED <<units, max_tokens>>

(***************************************************************************)
(* UnknownParser                                                           *)
(***************************************************************************)
MaxFileLen == 4        \* longest file handed to parse

\* The characters of a string literal, as the text sequences of this module.
Chars(s) == [i \in 1..Len(s) |-> SubSeq(s, i, i)]

\* Bytes of a file: a letter, the two line-ending bytes, and a byte (0xFF)
\* that occurs in no valid UTF-8 text.
BadByte == "0xFF"
FileBytes == {"x", NL, CR, BadByte}
Files == SeqsUpTo(FileBytes, MaxFileLen)
ParsePaths == {Chars("a.RS"), Chars("Makefile")}

\* std::str::from_utf8(bytes).is_ok()
is_utf8(bytes) == \A i \in 1..Len(bytes) : bytes[i] # BadByte

\* b.is_ascii_graphic() || b.is_ascii_whitespace()
is_printable(b) == b \in {"x", NL, CR}

extract_printable(bytes) == SelectSeq(bytes, is_printable)

\* char::to_lowercase on the letters the model uses
LowerChar(c) ==
    IF c = "R" THEN "r" ELSE IF c = "S" THEN "s" ELSE IF c = "M" THEN "m" ELSE c
to_lowercase(s) == [i \in 1..Len(s) |-> LowerChar(s[i])]

\* Path::file_name(): the last component unless the path ends in "..".
file_name(path) ==
    LET comps == Components(path) IN
    IF comps = <<>> THEN <<>>
    ELSE IF comps[Len(comps)].kind = "Normal" THEN comps[Len(comps)].part
    ELSE <<>>

\* Path::extension().unwrap_or(""): the part of the file name after its last
\* dot; none when there is no dot or the only dot starts the name.
extension(path) ==
    LET name == file_name(path)
        dots == {i \in 1..Len(name) : name[i] = "."}
    IN  IF dots = {} THEN <<>>
        ELSE LET d == CHOOSE i \in dots : \A j \in dots : j <= i
             IN  IF d = 1 THEN <<>> ELSE SubSeq(name, d + 1, Len(name))

\* FileMetadata::guess_language
guess_language(ext) ==
    CASE ext = Chars("rs") -> "rust"
      [] ext = Chars("py") -> "python"
      [] ext \in {Chars("js"), Chars("jsx")} -> "javascript"
      [] ext \in {Chars("ts"), Chars("tsx")} -> "typescript"
      [] ext = Chars("go") -> "go"
      [] ext \in {Chars("c"), Chars("h")} -> "c"
      [] ext \in {Chars("cpp"), Chars("cc"), Chars("cxx"), Chars("hpp")} -> "cpp"
      [] ext = Chars("java") -> "java"
      [] ext = Chars("rb") -> "ruby"
      [] ext = Chars("php") -> "php"
      [] ext = Chars("cs") -> "csharp"
      [] ext = Chars("swift") -> "swift"
      [] ext = Chars("kt") -> "kotlin"
      [] ext = Chars("md") -> "markdown"
      [] ext = Chars("json") -> "json"
      [] ext \in {Chars("yaml"), Chars("yml")} -> "yaml"
      [] ext = Chars("toml") -> "toml"
      [] ext = Chars("xml") -> "xml"
      [] ext = Chars("html") -> "html"
      [] ext = Chars("css") -> "css"
      [] ext \in {Chars("sh"), Chars("bash")} -> "shell"
      [] ext = Chars("sql") -> "sql"
      [] OTHER -> "unknown"

FileMetadata(path, bytes) ==
    LET ext == to_lowercase(extension(path)) IN
    [path |-> path, extension |-> ext, language |-> guess_language(ext),
     size_bytes |-> Len(bytes), line_count |-> 0, is_utf8 |-> is_utf8(bytes)]

RECURSIVE LinesLoop_NoNewline(_, _, _, _)
\* chunk_by_lines with a loop that pushes the line as lines() gave it.
LinesLoop_NoNewline(lines, offset, kind, out) ==
    IF lines = <<>> THEN out
    ELSE LET start == offset
             end == offset + Len(Head(lines))
         IN  LinesLoop_NoNewline(Tail(lines), end, kind,
                 Append(out, [text |-> Head(lines), start_offset |-> start,
                              end_offset |-> end, kind |-> kind]))

RECURSIVE LinesLoop(_, _, _, _)
\* for line in text.lines(): one unit per line, the newline re-attached
LinesLoop(lines, offset, kind, out) ==
    IF lines = <<>> THEN out
    ELSE LET line_with_newline == Append(Head(lines), NL)
             start == offset
             end == offset + Len(line_with_newline)
         IN  LinesLoop(Tail(lines), end, kind,
                 Append(out, [text |-> line_with_newline, start_offset |-> start,
                              end_offset |-> end, kind |-> kind]))

chunk_by_lines(text, is_text_file) ==
    LET kind == IF is_text_file THEN "Unknown" ELSE "Blob"
        loop_units == LinesLoop(Lines(text), 0, kind, <<>>)
    IN  IF loop_units = <<>> /\ text # <<>>
        THEN <<[text |-> text, start_offset |-> 0, end_offset |-> Len(text), kind |-> kind]>>
        ELSE loop_units

\* UnknownParser::parse
parse(path, bytes) ==
    LET metadata == FileMetadata(path, bytes)
        normalized_text == IF metadata.is_utf8 THEN bytes ELSE extract_printable(bytes)
        line_count == Len(Lines(normalized_text))
    IN  [normalized_text |-> normalized_text,
         metadata |-> [metadata EXCEPT !.line_count = line_count],
         semantic_units |-> chunk_by_lines(normalized_text, metadata.is_utf8)]

NoParseResult == parse(<<>>, <<>>)

IdleParse ==
    /\ parse_path = <<>>
    /\ parse_bytes = <<>>
    /\ parse_result = NoParseResult
    /\ parsed = FALSE

InitParseVars ==
    /\ parse_path \in ParsePaths
    /\ parse_bytes \in Files
    /\ parse_result = NoParseResult
    /\ parsed = FALSE

CallParse ==
    /\ ~parsed
    /\ parse_result' = parse(parse_path, parse_bytes)
    /\ parsed' = TRUE
    /\ UNCHANGED <<parse_path, parse_bytes>>

(***************************************************************************)
(* ParserRegistry                                                          *)
(***************************************************************************)
MaxRegisters == 2      \* most register calls on one registry
MaxSelectLen == 3      \* longest path handed to select

Parsers == {"Parser1", "Parser2"}
RegisterExts == {Chars(""), Chars("r"), Chars("R")}
SelectChars == {"/", ".", "r", "R"}
SelectPaths == SeqsUpTo(SelectChars, MaxSelectLen)

\* ParserRegistry::new
NewRegistry == [fallback |-> "UnknownParser", map |-> {}]

\* register that keeps the parser already registered under the extension.
register_KeepFirst(reg, ext, parser) ==
    IF MapHas(reg.map, ext) THEN reg
    ELSE [reg EXCEPT !.map = MapInsert(reg.map, ext, parser)]

\* ParserRegistry::register
register(reg, ext, parser) ==
    [reg EXCEPT !.map = MapInsert(reg.map, ext, parser)]

\* ParserRegistry::select
select(reg, path) ==
    LET ext == to_lowercase(extension(path)) IN
    IF MapHas(reg.map, ext) THEN MapGet(reg.map, ext) ELSE reg.fallback

parser_count(reg) == Cardinality(reg.map)
registered_extensions(reg) == {kv.key : kv \in reg.map}

IdleRegistry ==
    /\ registry = NewRegistry
    /\ registered = <<>>
    /\ select_path = <<>>
    /\ selected = "none"

InitRegistryVars == IdleRegistry

Register ==
    /\ Len(registered) < MaxRegisters
    /\ \E ext \in RegisterExts, parser \in Parsers :
        /\ registry' = register(registry, ext, parser)
        /\ registered' = Append(registered, [ext |-> ext, parser |-> parser])
    \* register borrows the registry mutably: no parser reference that an
    \* earlier select returned is alive any more
    /\ select_path' = <<>>
    /\ selected' = "none"

\* select only reads the registry, so a second select on the same registry
\* returns what it would have returned as the first: the model takes one
\* select between two register calls.
Select ==
    /\ selected = "none"
    /\ \E path \in SelectPaths :
        /\ select_path' = path
        /\ selected' = select(registry, path)
    /\ UNCHANGED <<registry, registered>>

(***************************************************************************)
(* EmbeddingClient                                                         *)
(***************************************************************************)
MaxTexts == 2          \* most texts in one embed call

EmbedTexts == {"t1", "t2"}
\* The vector the embedding service computes for a text (floats as integers).
Embedding(t) == IF t = "t1" THEN <<1>> ELSE <<2>>
Vectors == {Embedding(t) : t \in EmbedTexts}

\* What can happen to the POST: the send fails (no connection, or the
\* client's deadline passes), or a response arrives with a status and a body.
\* A body is JSON of the EmbeddingResponse shape with any list of vectors,
\* or something that does not decode as one, or cannot be read in time.
Statuses == {200, 204, 404, 500}
Bodies ==
    {[shape |-> "embeddings", embeddings |-> e, text |-> "json"] :
        e \in SeqsUpTo(Vectors, MaxTexts + 1)}
    \cup {[shape |-> "malformed", embeddings |-> <<>>, text |-> "oops"],
          [shape |-> "unreadable", embeddings |-> <<>>, text |-> "none"]}
Responses ==
    {[kind |-> failure, status |-> 0,
      body |-> [shape |-> "none", embeddings |-> <<>>, text |-> "none"]] :
        failure \in {"connect_failed", "send_timeout"}}
    \cup {[kind |-> "response", status |-> st, body |-> b] : st \in Statuses, b \in Bodies}
NoResponse == [kind |-> "none", status |-> 0,
               body |-> [shape |-> "none", embeddings |-> <<>>, text |-> "none"]]

EmbedOk(v) == [ok |-> TRUE, val |-> v, err |-> "none", cause |-> "none", status |-> 0, body |-> "none"]
\* EmbedError::RequestFailed(reqwest::Error), with what the reqwest error was
RequestFailed(cause) ==
    [ok |-> FALSE, val |-> <<>>, err |-> "RequestFailed", cause |-> cause, status |-> 0, body |-> "none"]
\* EmbedError::ServerError { status, body }
ServerError(status, body) ==
    [ok |-> FALSE, val |-> <<>>, err |-> "ServerError", cause |-> "none", status |-> status, body |-> body]
EmbedPending ==
    [ok |-> FALSE, val |-> <<>>, err |-> "pending", cause |-> "none", status |-> 0, body |-> "none"]

\* StatusCode::is_success
is_success(status) == status \in 200..299

\* EmbeddingClient::embed, given what happens to its request
embed(texts, resp) ==
    IF texts = <<>> THEN EmbedOk(<<>>)
    ELSE IF resp.kind = "connect_failed" THEN RequestFailed("connect")
    ELSE IF resp.kind = "send_timeout" THEN RequestFailed("timeout")
    ELSE IF ~is_success(resp.status)
         THEN ServerError(resp.status,
                  IF resp.body.shape = "unreadable" THEN "Unknown error" ELSE resp.body.text)
    ELSE IF resp.body.shape = "unreadable" THEN RequestFailed("body")
    ELSE IF resp.body.shape = "malformed" THEN RequestFailed("decode")
    ELSE EmbedOk(resp.body.embeddings)

\* embed_chunks
embed_chunks(texts, resp) == embed(texts, resp)

\* ---- Batcher
MaxItems == 4          \* most items handed to split
MaxBatchSize == 3      \* largest batch_size

\* Mutant: slice::chunks_exact, which leaves out a short last slice.
slice_chunks_Exact(items, size) ==
    [b \in 1..(Len(items) \div size) |-> SubSeq(items, (b - 1) * size + 1, b * size)]

\* slice::chunks(size) for size >= 1: slices of size items, the last one
\* shorter when the length is no multiple of size.
slice_chunks(items, size) ==
    [b \in 1..((Len(items) + size - 1) \div size) |->
        SubSeq(items, (b - 1) * size + 1,
               IF b * size <= Len(items) THEN b * size ELSE Len(items))]

\* Batcher::new(batch_size)
NewBatcher(batch_size, items) ==
    [batch_size |-> batch_size, items |-> items, batches |-> <<>>, state |-> "new"]

\* Batcher::split; slice::chunks panics when the size is 0.
split(b) ==
    IF b.batch_size = 0
    THEN [b EXCEPT !.state = "panicked"]
    ELSE [b EXCEPT !.batches = slice_chunks(b.items, b.batch_size), !.state = "split"]

IdleBatch == batching = NewBatcher(1, <<>>)

InitBatchVars ==
    batching \in {NewBatcher(size, items) :
                    size \in 0..MaxBatchSize, items \in SeqsUpTo(EmbedTexts, MaxItems)}

CallSplit ==
    /\ batching.state = "new"
    /\ batching' = split(batching)
    /\ UNCHANGED <<embed_texts, response, embed_result>>

IdleEmbed ==
    /\ embed_texts = <<>>
    /\ response = NoResponse
    /\ embed_result = EmbedPending
    /\ IdleBatch

InitEmbedVars ==
    /\ embed_texts \in SeqsUpTo(EmbedTexts, MaxTexts)
    /\ response = NoResponse
    /\ embed_result = EmbedPending
    /\ IdleBatch

\* One call of embed; no request is sent for an empty list of texts.
CallEmbed ==
    /\ embed_result = EmbedPending
    /\ \E resp \in (IF embed_texts = <<>> THEN {NoResponse} ELSE Responses) :
        /\ response' = resp
        /\ embed_result' = embed(embed_texts, resp)
    /\ UNCHANGED <<embed_texts, batching>>

(***************************************************************************)
(* kmeans                                                                  *)
(*                                                                         *)
(* f32 values are modelled exactly: vector components are integers, a      *)
(* centroid is a vector of numerators over one denominator, and a cosine   *)
(* similarity is kept as the triple (dot, na, nb) it is computed from, so   *)
(* that two similarities compare as the real numbers they stand for.       *)
(***************************************************************************)
MaxVectors == 3        \* most vectors in one call
MaxK == 2              \* largest k the model passes
MaxIters == 2          \* largest max_iters the model passes

Points == {<<1, 0>>, <<0, 1>>, <<1, 1>>, <<0, 0>>}
Seeds == {0, 1}
Runs == {1, 2}

RECURSIVE DotFrom(_, _, _)
DotFrom(a, b, i) == IF i > Len(a) THEN 0 ELSE a[i] * b[i] + DotFrom(a, b, i + 1)

\* cosine_similarity: dot / (sqrt(na) * sqrt(nb)), 0 when a norm is zero
cosine_similarity(a, b) ==
    LET dot == DotFrom(a, b, 1)
        na == DotFrom(a, a, 1)
        nb == DotFrom(b, b, 1)
    IN  IF na = 0 \/ nb = 0 THEN [dot |-> 0, na |-> 1, nb |-> 1]
        ELSE [dot |-> dot, na |-> na, nb |-> nb]

\* x < y for two similarities
SimLess(x, y) ==
    LET xs == x.dot * x.dot * y.na * y.nb
        ys == y.dot * y.dot * x.na * x.nb
    IN  IF x.dot < 0 /\ y.dot >= 0 THEN TRUE
        ELSE IF x.dot >= 0 /\ y.dot < 0 THEN FALSE
        ELSE IF x.dot >= 0 THEN xs < ys
        ELSE xs > ys

\* cosine_distance: 1 - similarity, kept as the similarity it is taken from
cosine_distance(a, b) == [sim |-> cosine_similarity(a, b)]

\* a.1.partial_cmp(&b.1) == Less, for two distances
DistLess(x, y) == SimLess(y.sim, x.sim)

\* A centroid: the vector num / den.  A cloned input vector has den 1.  The
\* cosine of a vector with num / den is its cosine with num.
Centroid(num, den) == [num |-> num, den |-> den]

RECURSIVE SumVectors(_)
SumVectors(vs) ==
    IF Len(vs) = 1 THEN vs[1]
    ELSE LET rest == SumVectors(Tail(vs)) IN [i \in 1..Len(vs[1]) |-> vs[1][i] + rest[i]]

\* compute_centroid: the component-wise mean, of the dimension of the first member
compute_centroid(members) == Centroid(SumVectors(members), Len(members))

\* The order in which the generator seeded with s visits the n indices; which
\* order it is does not matter, only that the seed decides it.
SeededOrder(s, n) == IF s = 0 THEN [i \in 1..n |-> i - 1] ELSE [i \in 1..n |-> n - i]

Min2(a, b) == IF a <= b THEN a ELSE b

\* Initial centers drawn from a generator that is not seeded: any choice of
\* distinct vectors, in any order.
InitialCenters_Unseeded(vs, amount, s) ==
    LET n == Len(vs) IN
    {[c \in 1..Min2(amount, n) |-> Centroid(vs[order[c]], 1)] :
        order \in {o \in [1..Min2(amount, n) -> 1..n] :
                      \A x, y \in 1..Min2(amount, n) : x # y => o[x] # o[y]}}

\* embeddings.choose_multiple(&mut rng, k).cloned().collect() with the
\* generator seeded from seed: the outcomes the call can have, min(k, n)
\* distinct vectors.
InitialCenters(vs, amount, s) ==
    LET n == Len(vs) IN
    {[c \in 1..Min2(amount, n) |-> Centroid(vs[SeededOrder(s, n)[c] + 1], 1)]}

\* The index of the nearest centroid: the first of the minima of the distance.
Nearest(v, centroids) ==
    LET dist(c) == cosine_distance(v, centroids[c + 1].num)
        minima == {c \in 0..(Len(centroids) - 1) :
                      \A d \in 0..(Len(centroids) - 1) : ~DistLess(dist(d), dist(c))}
    IN  CHOOSE c \in minima : \A d \in minima : c <= d

\* The vectors assigned to cluster c, in input order.
Members(vs, assignments, c) ==
    LET ids == {i \in 1..Len(vs) : assignments[i] = c}
        RECURSIVE From(_)
        From(i) == IF i > Len(vs) THEN <<>>
                   ELSE IF i \in ids THEN <<vs[i]>> \o From(i + 1)
                   ELSE From(i + 1)
    IN  From(1)

\* Step 3: for c in 0..k, the mean of the members of c when it has any.
UpdateCentroids(vs, assignments, centroids, kk) ==
    [c \in 1..Len(centroids) |->
        IF c <= kk /\ Members(vs, assignments, c - 1) # <<>>
        THEN compute_centroid(Members(vs, assignments, c - 1))
        ELSE centroids[c]]

\* The chunk ids pushed to cluster c, in the order of the enumeration.
ChunkIds(assignments, c) ==
    LET RECURSIVE From(_)
        From(i) == IF i > Len(assignments) THEN <<>>
                   ELSE IF assignments[i] = c THEN <<i - 1>> \o From(i + 1)
                   ELSE From(i + 1)
    IN  From(1)

\* Step 4 with the clusters numbered from 1.
BuildClusters_IdFromOne(assignments, centroids, kk) ==
    [c \in 1..kk |-> [id |-> c,
                      chunk_ids |-> ChunkIds(assignments, c - 1),
                      centroid |-> centroids[c]]]

\* Step 4 with every cluster given the chunk ids from 1 on.
BuildClusters_SkipFirst(assignments, centroids, kk) ==
    [c \in 1..kk |-> [id |-> c - 1,
                      chunk_ids |-> SelectSeq(ChunkIds(assignments, c - 1), LAMBDA i : i # 0),
                      centroid |-> centroids[c]]]

\* Step 4: k clusters, numbered, with their centroids and chunk ids.
BuildClusters(assignments, centroids, kk) ==
    [c \in 1..kk |-> [id |-> c - 1,
                      chunk_ids |-> ChunkIds(assignments, c - 1),
                      centroid |-> centroids[c]]]

\* The locals of a call that has not started.  initial, rounds and previous
\* are ghost fields: the initial centroids, the assignments after each round,
\* and the centroids before the last update.
NotStarted ==
    [pc |-> "init", centroids |-> <<>>, assignments |-> <<>>, iterations |-> 0,
     clusters |-> <<>>, initial |-> <<>>, rounds |-> <<>>, previous |-> <<>>]

IdleKmeans ==
    /\ embeddings = <<>>
    /\ k = 0
    /\ max_iters = 0
    /\ seed = 0
    /\ runs = [r \in Runs |-> NotStarted]

InitKmeansVars ==
    /\ embeddings \in SeqsUpTo(Points, MaxVectors)
    /\ k \in 0..MaxK
    /\ max_iters \in 0..MaxIters
    /\ seed \in Seeds
    /\ runs = [r \in Runs |-> NotStarted]

\* Lines 11-18: seed the generator, pick the initial centers, zero the assignments.
KmInit(r) ==
    /\ runs[r].pc = "init"
    /\ \E centers \in InitialCenters(embeddings, k, seed) :
        runs' = [runs EXCEPT ![r] =
                    [@ EXCEPT !.centroids = centers,
                              !.initial = centers,
                              !.assignments = [i \in 1..Len(embeddings) |-> 0],
                              !.iterations = 0,
                              !.pc = IF max_iters = 0 THEN "build" ELSE "assign"]]
    /\ UNCHANGED <<embeddings, k, max_iters, seed>>

\* Mutant: a round without a change does not end the loop.
KmAssign_NoConvergence(r) ==
    /\ runs[r].pc = "assign"
    /\ LET run == runs[r] IN
       IF embeddings # <<>> /\ run.centroids = <<>>
       THEN runs' = [runs EXCEPT ![r] = [@ EXCEPT !.iterations = @ + 1, !.pc = "panicked"]]
       ELSE LET assigned == [i \in 1..Len(embeddings) |-> Nearest(embeddings[i], run.centroids)]
                changed == assigned # run.assignments
            IN  runs' = [runs EXCEPT ![r] =
                            [@ EXCEPT !.iterations = @ + 1,
                                      !.assignments = assigned,
                                      !.rounds = Append(@, assigned),
                                      !.pc = IF changed \/ ~changed THEN "update" ELSE "build"]]
    /\ UNCHANGED <<embeddings, k, max_iters, seed>>

\* Lines 20-42: one round of assignment.  With vectors and no centroid the
\* unwrap of min_by's None panics.
KmAssign(r) ==
    /\ runs[r].pc = "assign"
    /\ LET run == runs[r] IN
       IF embeddings # <<>> /\ run.centroids = <<>>
       THEN runs' = [runs EXCEPT ![r] = [@ EXCEPT !.iterations = @ + 1, !.pc = "panicked"]]
       ELSE LET assigned == [i \in 1..Len(embeddings) |-> Nearest(embeddings[i], run.centroids)]
                changed == assigned # run.assignments
            IN  runs' = [runs EXCEPT ![r] =
                            [@ EXCEPT !.iterations = @ + 1,
                                      !.assignments = assigned,
                                      !.rounds = Append(@, assigned),
                                      !.pc = IF changed THEN "update" ELSE "build"]]
    /\ UNCHANGED <<embeddings, k, max_iters, seed>>

\* Lines 44-57: recompute the centroids, then the next round if one is left.
KmUpdate(r) ==
    /\ runs[r].pc = "update"
    /\ LET run == runs[r] IN
       runs' = [runs EXCEPT ![r] =
                   [run EXCEPT !.centroids = UpdateCentroids(embeddings, run.assignments,
                                                             run.centroids, k),
                               !.previous = run.centroids,
                               !.pc = IF run.iterations = max_iters THEN "build" ELSE "assign"]]
    /\ UNCHANGED <<embeddings, k, max_iters, seed>>

\* Lines 59-81: build the clusters.  centroids[i] panics when fewer than k
\* centers were drawn, clusters[cluster_idx] when a vector is assigned to a
\* cluster that does not exist.
KmBuild(r) ==
    /\ runs[r].pc = "build"
    /\ LET run == runs[r] IN
       IF \/ Len(run.centroids) < k
          \/ \E i \in 1..Len(run.assignments) : run.assignments[i] >= k
       THEN runs' = [runs EXCEPT ![r] = [@ EXCEPT !.pc = "panicked"]]
       ELSE runs' = [runs EXCEPT ![r] =
                        [@ EXCEPT !.clusters = BuildClusters(run.assignments, run.centroids, k),
                                  !.pc = "done"]]
    /\ UNCHANGED <<embeddings, k, max_iters, seed>>

(***************************************************************************)
(* DocpackDB, DocpackWriter, DocpackReader                                 *)
(*                                                                         *)
(* A table is a set of rows keyed by its primary key; an f32 is the 32-bit  *)
(* pattern of the float.  The file system holds the output ZIP, the        *)
(* temporary database next to it and the database the reader extracts.     *)
(***************************************************************************)
MaxInserts == 4        \* most inserts through one writer
MaxWrites == 2         \* most calls of write_to_file on one writer

FileInfo(path, hash) == [path |-> path, hash |-> hash, size |-> 1, language |-> "rust"]
CodeChunk(id, file_path) ==
    [id |-> id, file_path |-> file_path, content |-> "fn", start_line |-> 1,
     end_line |-> 2, language |-> "rust", chunk_type |-> "function", name |-> "f"]
Embedding3(chunk_id, vector) == [chunk_id |-> chunk_id, vector |-> vector, model |-> "model"]
Symbol(id) ==
    [id |-> id, name |-> "f", kind |-> "function", file_path |-> "f1", line |-> 1,
     signature |-> "fn f()", documentation |-> "none"]

FilePool == {FileInfo("f1", "h1"), FileInfo("f1", "h2")}
ChunkPool == {CodeChunk("c1", "f1")}
\* Vectors of f32 bit patterns: 1.0 and a pattern with four different bytes, and 0.0
EmbeddingPool == {Embedding3("c1", <<1065353216, 16909060>>), Embedding3("c1", <<0>>)}
SymbolPool == {Symbol("s1")}

\* f32::to_le_bytes
to_le_bytes(f) ==
    <<f % 256, (f \div 256) % 256, (f \div 65536) % 256, (f \div 16777216) % 256>>

\* f32::from_be_bytes: the four bytes read in the other order.
from_le_bytes_BigEndian(b) == b[4] + 256 * b[3] + 65536 * b[2] + 16777216 * b[1]

\* f32::from_le_bytes
from_le_bytes(b) == b[1] + 256 * b[2] + 65536 * b[3] + 16777216 * b[4]

RECURSIVE EncodeVector(_)
\* vector.iter().flat_map(|f| f.to_le_bytes()).collect()
EncodeVector(v) == IF v = <<>> THEN <<>> ELSE to_le_bytes(Head(v)) \o EncodeVector(Tail(v))

RECURSIVE DecodeVector(_)
\* vector_bytes.chunks_exact(4).map(f32::from_le_bytes).collect()
DecodeVector(bytes) ==
    IF Len(bytes) < 4 THEN <<>>
    ELSE <<from_le_bytes(SubSeq(bytes, 1, 4))>> \o DecodeVector(SubSeq(bytes, 5, Len(bytes)))

\* DocpackDB::new_in_memory: the schema, no rows
EmptyDB == [files |-> {}, chunks |-> {}, embeddings |-> {}, symbols |-> {}]

\* INSERT OR REPLACE INTO files
insert_file(db, file) == [db EXCEPT !.files = MapInsert(@, file.path, file)]
\* INSERT OR REPLACE INTO chunks
insert_chunk(db, chunk) == [db EXCEPT !.chunks = MapInsert(@, chunk.id, chunk)]
\* INSERT OR REPLACE INTO embeddings, the vector as a BLOB
insert_embedding(db, embedding) ==
    [db EXCEPT !.embeddings =
        MapInsert(@, embedding.chunk_id,
                  [chunk_id |-> embedding.chunk_id,
                   vector |-> EncodeVector(embedding.vector),
                   model |-> embedding.model])]
\* INSERT OR REPLACE INTO symbols
insert_symbol(db, symbol) == [db EXCEPT !.symbols = MapInsert(@, symbol.id, symbol)]

\* DocpackDB::get_embedding: Some(Embedding) with the BLOB decoded, or None
get_embedding(db, chunk_id) ==
    IF MapHas(db.embeddings, chunk_id)
    THEN LET row == MapGet(db.embeddings, chunk_id) IN
         [some |-> TRUE, chunk_id |-> row.chunk_id,
          vector |-> DecodeVector(row.vector), model |-> row.model]
    ELSE [some |-> FALSE, chunk_id |-> chunk_id, vector |-> <<>>, model |-> "none"]

\* DocpackDB::get_stats
get_stats(db) ==
    [file_count |-> Cardinality(db.files), chunk_count |-> Cardinality(db.chunks),
     embedding_count |-> Cardinality(db.embeddings), symbol_count |-> Cardinality(db.symbols)]

\* The Manifest DocpackWriter::new builds
NewManifest ==
    [version |-> "1.0.0",
     stats |-> [file_count |-> 0, chunk_count |-> 0, embedding_count |-> 0,
                symbol_count |-> 0, total_size_bytes |-> 0],
     embedding_model |-> "model"]

\* Mutant: total_size_bytes is refreshed too, to one byte per file row.
update_stats_WithSize(m, db) ==
    LET stats == get_stats(db) IN
    [m EXCEPT !.stats.file_count = stats.file_count,
              !.stats.chunk_count = stats.chunk_count,
              !.stats.embedding_count = stats.embedding_count,
              !.stats.symbol_count = stats.symbol_count,
              !.stats.total_size_bytes = stats.file_count]

\* DocpackWriter::update_stats
update_stats(m, db) ==
    LET stats == get_stats(db) IN
    [m EXCEPT !.stats.file_count = stats.file_count,
              !.stats.chunk_count = stats.chunk_count,
              !.stats.embedding_count = stats.embedding_count,
              !.stats.symbol_count = stats.symbol_count]

\* A database file: absent, or the rows it holds (whole is FALSE for a file
\* a failed VACUUM INTO left behind).
NoDbFile == [exists |-> FALSE, whole |-> FALSE, db |-> EmptyDB]
DbFile(db) == [exists |-> TRUE, whole |-> TRUE, db |-> db]
BrokenDbFile == [exists |-> TRUE, whole |-> FALSE, db |-> EmptyDB]

\* The output file: absent, or the entries written so far and whether the
\* archive was finalized.
NoZip ==
    [exists |-> FALSE, has_db |-> FALSE, db |-> EmptyDB, has_manifest |-> FALSE,
     manifest |-> NewManifest, has_readme |-> FALSE, has_assets |-> FALSE,
     finished |-> FALSE]
\* File::create(output_path): a new or truncated file
CreatedZip == [NoZip EXCEPT !.exists = TRUE]

EmptyDisk == [zip |-> NoZip, tmp_db |-> NoDbFile, extracted_db |-> NoDbFile]

NoReader == [state |-> "none", db |-> EmptyDB, manifest |-> NewManifest]
ReaderErr == [state |-> "err", db |-> EmptyDB, manifest |-> NewManifest]

\* DocpackWriter::new, before any insert
IdleDocpack ==
    /\ writer_db = EmptyDB
    /\ manifest = NewManifest
    /\ wpc = "idle"
    /\ write_result = "none"
    /\ disk = EmptyDisk
    /\ reader = NoReader
    /\ submitted = {}
    /\ db_at_write = [db |-> EmptyDB, vectors |-> {}]
    /\ used = [inserts |-> 0, writes |-> 0]

InitDocpackVars == IdleDocpack

\* The writer accepts a call: no write_to_file is running.  The model stops
\* once a reader has opened the docpack.
WriterFree == wpc = "idle" /\ reader.state = "none"

CanInsert == WriterFree /\ used.inserts < MaxInserts

InsertFile ==
    /\ CanInsert
    /\ \E file \in FilePool : writer_db' = insert_file(writer_db, file)
    /\ used' = [used EXCEPT !.inserts = @ + 1]
    /\ UNCHANGED <<manifest, wpc, write_result, disk, reader, submitted, db_at_write>>

InsertChunk ==
    /\ CanInsert
    /\ \E chunk \in ChunkPool : writer_db' = insert_chunk(writer_db, chunk)
    /\ used' = [used EXCEPT !.inserts = @ + 1]
    /\ UNCHANGED <<manifest, wpc, write_result, disk, reader, submitted, db_at_write>>

InsertEmbedding ==
    /\ CanInsert
    /\ \E embedding \in EmbeddingPool :
        /\ writer_db' = insert_embedding(writer_db, embedding)
        /\ submitted' = MapInsert(submitted, embedding.chunk_id, embedding.vector)
    /\ used' = [used EXCEPT !.inserts = @ + 1]
    /\ UNCHANGED <<manifest, wpc, write_result, disk, reader, db_at_write>>

InsertSymbol ==
    /\ CanInsert
    /\ \E symbol \in SymbolPool : writer_db' = insert_symbol(writer_db, symbol)
    /\ used' = [used EXCEPT !.inserts = @ + 1]
    /\ UNCHANGED <<manifest, wpc, write_result, disk, reader, submitted, db_at_write>>

\* write_to_file returns Err from the step it is in.
WriteFails ==
    /\ wpc' = "idle"
    /\ write_result' = "err"

\* Lines 109-114: the call, and update_stats.  write_to_file takes &mut self,
\* so the writer can be written again after it returns.
WriteUpdateStats ==
    /\ WriterFree
    /\ used.writes < MaxWrites
    /\ used' = [used EXCEPT !.writes = @ + 1]
    /\ db_at_write' = [db |-> writer_db, vectors |-> submitted]
    /\ \E ok \in BOOLEAN :
        IF ok
        THEN /\ manifest' = update_stats(manifest, writer_db)
             /\ wpc' = "save"
             /\ write_result' = "none"
        ELSE /\ WriteFails
             /\ UNCHANGED manifest
    /\ UNCHANGED <<writer_db, disk, reader, submitted>>

\* Lines 117-119 and db.rs 300-313: remove a stale temporary file, then
\* VACUUM INTO it; a failed VACUUM leaves no file or a broken one.
WriteSaveTemp ==
    /\ wpc = "save"
    /\ \E ok \in BOOLEAN :
        IF ok
        THEN /\ disk' = [disk EXCEPT !.tmp_db = DbFile(writer_db)]
             /\ wpc' = "create"
             /\ UNCHANGED write_result
        ELSE /\ \E left \in {NoDbFile, BrokenDbFile} : disk' = [disk EXCEPT !.tmp_db = left]
             /\ WriteFails
    /\ UNCHANGED <<writer_db, manifest, reader, submitted, db_at_write, used>>

\* Lines 122-124: File::create(output_path) creates or truncates the output.
WriteCreateZip ==
    /\ wpc = "create"
    /\ \E ok \in BOOLEAN :
        IF ok
        THEN /\ disk' = [disk EXCEPT !.zip = CreatedZip]
             /\ wpc' = "add_db"
             /\ UNCHANGED write_result
        ELSE /\ WriteFails
             /\ UNCHANGED disk
    /\ UNCHANGED <<writer_db, manifest, reader, submitted, db_at_write, used>>

\* A step that adds to the open archive fails: write_to_file returns and the
\* ZipWriter is dropped, which tries to finalize what was written.
ZipStepFails ==
    /\ \E finalized \in BOOLEAN : disk' = [disk EXCEPT !.zip.finished = finalized]
    /\ WriteFails

\* Lines 142-151: the entry docpack.sqlite, read back from the temporary file.
WriteAddDatabase ==
    /\ wpc = "add_db"
    /\ \E ok \in BOOLEAN :
        IF ok
        THEN /\ disk' = [disk EXCEPT !.zip.has_db = TRUE, !.zip.db = disk.tmp_db.db]
             /\ wpc' = "add_manifest"
             /\ UNCHANGED write_result
        ELSE ZipStepFails
    /\ UNCHANGED <<writer_db, manifest, reader, submitted, db_at_write, used>>

\* Lines 154-160: the entry manifest.json.
WriteAddManifest ==
    /\ wpc = "add_manifest"
    /\ \E ok \in BOOLEAN :
        IF ok
        THEN /\ disk' = [disk EXCEPT !.zip.has_manifest = TRUE, !.zip.manifest = manifest]
             /\ wpc' = "add_readme"
             /\ UNCHANGED write_result
        ELSE ZipStepFails
    /\ UNCHANGED <<writer_db, manifest, reader, submitted, db_at_write, used>>

\* Lines 163-168: the entry readme.md.
WriteAddReadme ==
    /\ wpc = "add_readme"
    /\ \E ok \in BOOLEAN :
        IF ok
        THEN /\ disk' = [disk EXCEPT !.zip.has_readme = TRUE]
             /\ wpc' = "add_assets"
             /\ UNCHANGED write_result
        ELSE ZipStepFails
    /\ UNCHANGED <<writer_db, manifest, reader, submitted, db_at_write, used>>

\* Lines 171-172: the directory entry assets/.
WriteAddAssets ==
    /\ wpc = "add_assets"
    /\ \E ok \in BOOLEAN :
        IF ok
        THEN /\ disk' = [disk EXCEPT !.zip.has_assets = TRUE]
             /\ wpc' = "finish"
             /\ UNCHANGED write_result
        ELSE ZipStepFails
    /\ UNCHANGED <<writer_db, manifest, reader, submitted, db_at_write, used>>

\* Lines 175-176: zip.finish().
WriteFinish ==
    /\ wpc = "finish"
    /\ \E ok \in BOOLEAN :
        IF ok
        THEN /\ disk' = [disk EXCEPT !.zip.finished = TRUE]
             /\ wpc' = "permissions"
             /\ UNCHANGED write_result
        ELSE /\ WriteFails
             /\ UNCHANGED disk
    /\ UNCHANGED <<writer_db, manifest, reader, submitted, db_at_write, used>>

\* Lines 179-186: fs::set_permissions on the finished output.
WriteSetPermissions ==
    /\ wpc = "permissions"
    /\ \E ok \in BOOLEAN :
        IF ok
        THEN /\ wpc' = "cleanup"
             /\ UNCHANGED write_result
        ELSE WriteFails
    /\ UNCHANGED <<writer_db, manifest, disk, reader, submitted, db_at_write, used>>

\* Lines 189-198: remove the temporary database and return Ok.
WriteRemoveTemp ==
    /\ wpc = "cleanup"
    /\ \E ok \in BOOLEAN :
        IF ok
        THEN /\ disk' = [disk EXCEPT !.tmp_db = NoDbFile]
             /\ wpc' = "idle"
             /\ write_result' = "ok"
        ELSE /\ WriteFails
             /\ UNCHANGED disk
    /\ UNCHANGED <<writer_db, manifest, reader, submitted, db_at_write, used>>

\* DocpackReader::open on the output path: the archive must open and hold
\* manifest.json and docpack.sqlite; the database is extracted next to the
\* docpack and opened there.
open(d) ==
    IF ~d.zip.exists \/ ~d.zip.finished \/ ~d.zip.has_manifest \/ ~d.zip.has_db
    THEN [reader |-> ReaderErr, disk |-> d]
    ELSE [reader |-> [state |-> "ok", db |-> d.zip.db, manifest |-> d.zip.manifest],
          disk |-> [d EXCEPT !.extracted_db = DbFile(d.zip.db)]]

ReaderOpen ==
    /\ WriterFree
    /\ used.writes > 0
    /\ reader' = open(disk).reader
    /\ disk' = open(disk).disk
    /\ UNCHANGED <<writer_db, manifest, wpc, write_result, submitted, db_at_write, used>>

(***************************************************************************)
(* The specifications, one per component.                                  *)
(***************************************************************************)
IdleSandbox == InitSandboxVars
IdleIngest == IdlePath /\ IdleSandbox /\ IdleChunk
IdleAnalysis == IdleParse /\ IdleRegistry /\ IdleEmbed /\ IdleKmeans /\ IdleDocpack

InitPath == InitPathVars /\ IdleSandbox /\ IdleChunk /\ IdleAnalysis
NextPath ==
    \/ CallSanitize /\ UNCHANGED <<sandboxVars, chunkVars, analysisVars>>
    \/ CallSanitizeWithOptions /\ UNCHANGED <<sandboxVars, chunkVars, analysisVars>>
SpecPath == InitPath /\ [][NextPath]_vars

InitSandbox == IdlePath /\ InitSandboxVars /\ IdleChunk /\ IdleAnalysis
\* A builder that is configured, given files one add_file call at a time,
\* and built.
NextSandbox ==
    \/ SetMaxFileSize /\ UNCHANGED <<pathVars, chunkVars, analysisVars>>
    \/ SetMaxTotalSize /\ UNCHANGED <<pathVars, chunkVars, analysisVars>>
    \/ AddFile /\ UNCHANGED <<pathVars, chunkVars, analysisVars>>
    \/ Build /\ UNCHANGED <<pathVars, chunkVars, analysisVars>>
SpecSandbox == InitSandbox /\ [][NextSandbox]_vars

\* The chain of main.rs: a builder that is configured, ingests archives and
\* is built.
NextIngest ==
    \/ SetMaxFileSize /\ UNCHANGED <<pathVars, chunkVars, analysisVars>>
    \/ SetMaxTotalSize /\ UNCHANGED <<pathVars, chunkVars, analysisVars>>
    \/ Ingest /\ UNCHANGED <<pathVars, chunkVars, analysisVars>>
    \/ Build /\ UNCHANGED <<pathVars, chunkVars, analysisVars>>
SpecIngest == InitSandbox /\ [][NextIngest]_vars

\* A builder that is given the files of a small tree, and the walks over the
\* sandbox built from it.
NextTree ==
    \/ SetMaxFileSize /\ UNCHANGED <<pathVars, chunkVars, analysisVars>>
    \/ SetMaxTotalSize /\ UNCHANGED <<pathVars, chunkVars, analysisVars>>
    \/ AddTreeFile /\ UNCHANGED <<pathVars, chunkVars, analysisVars>>
    \/ Build /\ UNCHANGED <<pathVars, chunkVars, analysisVars>>
    \/ WalkPrefix /\ UNCHANGED <<pathVars, chunkVars, analysisVars>>
SpecTree == InitSandbox /\ [][NextTree]_vars

InitChunk == IdlePath /\ IdleSandbox /\ InitChunkVars /\ IdleAnalysis
NextChunk == CallChunker /\ UNCHANGED <<pathVars, sandboxVars, analysisVars>>
SpecChunk == InitChunk /\ [][NextChunk]_vars

\* The chunker on units drawn from the texts of every shape.
InitShape == IdlePath /\ IdleSandbox /\ InitShapeVars /\ IdleAnalysis
SpecShape == InitShape /\ [][NextChunk]_vars

InitParse == IdleIngest /\ InitParseVars /\ IdleRegistry /\ IdleEmbed /\ IdleKmeans /\ IdleDocpack
NextParse == CallParse /\ UNCHANGED <<ingestVars, registryVars, embedVars, kmeansVars, docpackVars>>
SpecParse == InitParse /\ [][NextParse]_vars

InitRegistry == IdleIngest /\ IdleParse /\ InitRegistryVars /\ IdleEmbed /\ IdleKmeans /\ IdleDocpack
NextRegistry ==
    \/ Register /\ UNCHANGED <<ingestVars, parseVars, embedVars, kmeansVars, docpackVars>>
    \/ Select /\ UNCHANGED <<ingestVars, parseVars, embedVars, kmeansVars, docpackVars>>
SpecRegistry == InitRegistry /\ [][NextRegistry]_vars

InitEmbed == IdleIngest /\ IdleParse /\ IdleRegistry /\ InitEmbedVars /\ IdleKmeans /\ IdleDocpack
NextEmbed == CallEmbed /\ UNCHANGED <<ingestVars, parseVars, registryVars, kmeansVars, docpackVars>>
SpecEmbed == InitEmbed /\ [][NextEmbed]_vars

\* One Batcher and one call of split.
InitBatch ==
    /\ IdleIngest /\ IdleParse /\ IdleRegistry /\ IdleKmeans /\ IdleDocpack
    /\ embed_texts = <<>> /\ response = NoResponse /\ embed_result = EmbedPending
    /\ InitBatchVars
NextBatch == CallSplit /\ UNCHANGED <<ingestVars, parseVars, registryVars, kmeansVars, docpackVars>>
SpecBatch == InitBatch /\ [][NextBatch]_vars

\* One call of kmeans.
InitKmeans == IdleIngest /\ IdleParse /\ IdleRegistry /\ IdleEmbed /\ InitKmeansVars /\ IdleDocpack
NextKmeans ==
    \/ KmInit(1) /\ UNCHANGED <<ingestVars, parseVars, registryVars, embedVars, docpackVars>>
    \/ KmAssign(1) /\ UNCHANGED <<ingestVars, parseVars, registryVars, embedVars, docpackVars>>
    \/ KmUpdate(1) /\ UNCHANGED <<ingestVars, parseVars, registryVars, embedVars, docpackVars>>
    \/ KmBuild(1) /\ UNCHANGED <<ingestVars, parseVars, registryVars, embedVars, docpackVars>>
SpecKmeans == InitKmeans /\ [][NextKmeans]_vars

\* A call of kmeans and, once it is over, a second call with the same arguments.
KmRerun ==
    /\ runs[1].pc \in {"done", "panicked"}
    /\ KmInit(2) \/ KmAssign(2) \/ KmUpdate(2) \/ KmBuild(2)
NextKmeansTwice ==
    \/ NextKmeans
    \/ KmRerun /\ UNCHANGED <<ingestVars, parseVars, registryVars, embedVars, docpackVars>>
SpecKmeansTwice == InitKmeans /\ [][NextKmeansTwice]_vars

\* One DocpackWriter, its inserts and writes, and a reader of what it wrote.
InitDocpack ==
    IdleIngest /\ IdleParse /\ IdleRegistry /\ IdleEmbed /\ IdleKmeans /\ InitDocpackVars
otherThanDocpack == <<ingestVars, parseVars, registryVars, embedVars, kmeansVars>>
NextDocpack ==
    \/ InsertFile /\ UNCHANGED otherThanDocpack
    \/ InsertChunk /\ UNCHANGED otherThanDocpack
    \/ InsertEmbedding /\ UNCHANGED otherThanDocpack
    \/ InsertSymbol /\ UNCHANGED otherThanDocpack
    \/ WriteUpdateStats /\ UNCHANGED otherThanDocpack
    \/ WriteSaveTemp /\ UNCHANGED otherThanDocpack
    \/ WriteCreateZip /\ UNCHANGED otherThanDocpack
    \/ WriteAddDatabase /\ UNCHANGED otherThanDocpack
    \/ WriteAddManifest /\ UNCHANGED otherThanDocpack
    \/ WriteAddReadme /\ UNCHANGED otherThanDocpack
    \/ WriteAddAssets /\ UNCHANGED otherThanDocpack
    \/ WriteFinish /\ UNCHANGED otherThanDocpack
    \/ WriteSetPermissions /\ UNCHANGED otherThanDocpack
    \/ WriteRemoveTemp /\ UNCHANGED otherThanDocpack
    \/ ReaderOpen /\ UNCHANGED otherThanDocpack
SpecDocpack == InitDocpack /\ [][NextDocpack]_vars

(***************************************************************************)
(* Claims about PathSanitizer (checked under SpecPath).                    *)
(***************************************************************************)
\* Position i of p starts a ".." component: ".." between separators or ends.
DotDotAt(p, i) ==
    /\ i + 1 <= Len(p)
    /\ p[i] = "." /\ p[i + 1] = "."
    /\ (i = 1 \/ p[i - 1] = "/")
    /\ (i + 1 = Len(p) \/ p[i + 2] = "/")

HasDotDot(p) == \E i \in 1..Len(p) : DotDotAt(p, i)

\* C1: whenever sanitize or sanitize_with_options returns Ok(p), p is
\* non-empty, does not begin with "/" and none of its "/"-separated
\* components is "..".
C1_SanitizedPathIsSafe ==
    sanitized.ok =>
        /\ sanitized.val # <<>>
        /\ sanitized.val[1] # "/"
        /\ ~HasDotDot(sanitized.val)

\* "./a/b" went through sanitize_with_options and came out as "a/b".
C1_Witness ==
    /\ entry_point = "sanitize_with_options"
    /\ raw_path = <<".", "/", "a", "/", "b">>
    /\ sanitized = Ok(<<"a", "/", "b">>)

\* The pieces of raw between separators that are neither empty nor ".".
NormalPieces(raw) == SelectSeq(Split(raw, "/"), LAMBDA p : p # <<>> /\ p # <<".">>)

MustReject(raw) ==
    \/ raw = <<>>
    \/ raw[1] = "/"
    \/ HasDotDot(raw)
    \/ NormalPieces(raw) = <<>>

\* C2: sanitize returns InvalidPath exactly for the paths that are empty,
\* start at the root, hold a ".." component anywhere, or have no normal
\* component left once "." components are dropped; for every other path it
\* returns the normal components in their order, joined with "/".
C2_SanitizeDecides ==
    entry_point = "sanitize" =>
        IF MustReject(raw_path)
        THEN ~sanitized.ok /\ sanitized.err = "InvalidPath"
        ELSE sanitized = Ok(Join(NormalPieces(raw_path), <<"/">>))

\* "a/../b" would resolve inside the root and is rejected all the same.
C2_Witness ==
    /\ entry_point = "sanitize"
    /\ raw_path = <<"a", "/", ".", ".", "/", "b">>
    /\ sanitized = Err("InvalidPath", "Parent directory traversal not allowed")

(***************************************************************************)
(* Claims about SandboxBuilder / Sandbox (checked under SpecSandbox).      *)
(***************************************************************************)
RECURSIVE SumLength(_)
\* The sum of length over a set of FileEntry.
SumLength(entries) ==
    IF entries = {} THEN 0
    ELSE LET e == CHOOSE e \in entries : TRUE
         IN  e.length + SumLength(entries \ {e})

LastAdded == sanitize(last.raw).val

\* C3: add_file with a path that sanitizes fails with FileTooLarge exactly
\* when the data is longer than max_file_size or the arena (all bytes
\* appended so far, overwritten entries included) plus the data is longer
\* than max_total_size; otherwise it succeeds and records the entry at
\* offset = previous arena length with length = data length.
C3_AddFileSizeChecks ==
    (last.op = "add_file" /\ sanitize(last.raw).ok) =>
        LET too_large == \/ last.len > max_file_size
                         \/ last.before + last.len > max_total_size
        IN  /\ last.res = "FileTooLarge" <=> too_large
            /\ last.res = "Ok" <=> ~too_large
            /\ Len(arena) = SumLength(list(index)) + dead_bytes
            /\ last.before = Len(arena) - (IF too_large THEN 0 ELSE last.len)
            /\ ~too_large =>
                /\ MapHas(index, LastAdded)
                /\ MapGet(index, LastAdded) = FileEntry(last.before, last.len, LastAdded)

\* A file of exactly max_file_size bytes that fills the arena to exactly
\* max_total_size was accepted.
C3_Witness ==
    /\ last.op = "add_file" /\ last.res = "Ok"
    /\ last.len = max_file_size
    /\ Len(arena) = max_total_size
    /\ last.before > 0

\* C4 as stated: total_size() is the sum of length over list().
C4_TotalSizeIsSumOfEntries ==
    phase = "sandbox" => total_size(arena) = SumLength(list(index))

\* C4, amended: total_size() is the sum of length over list() plus the bytes
\* of the entries a later add_file of the same path overwrote.
C4_TotalSizeCountsDeadBytes ==
    phase = "sandbox" =>
        /\ total_size(arena) = SumLength(list(index)) + dead_bytes
        /\ dead_bytes = 0 => total_size(arena) = SumLength(list(index))

\* A sandbox whose arena still holds an overwritten entry's bytes.
C4_Witness ==
    /\ phase = "sandbox"
    /\ dead_bytes > 0
    /\ index # {}
    /\ total_size(arena) > SumLength(list(index))

\* The paths the claims look up: every raw path, every sanitized path, and
\* one that is never added.
ProbePaths ==
    AddPaths \cup {sanitize(r).val : r \in {r \in AddPaths : sanitize(r).ok}}
             \cup {<<"c">>}

\* C5: get(p) returns the bytes of the most recent successful add_file whose
\* raw path sanitizes to p, get of a path never added returns nothing, and
\* file_count() is the number of distinct sanitized paths added.
C5_GetReturnsLastWritten ==
    phase = "sandbox" =>
        /\ \A p \in ProbePaths :
              get(arena, index, p) =
                  IF MapHas(written, p)
                  THEN [some |-> TRUE, bytes |-> MapGet(written, p)]
                  ELSE [some |-> FALSE, bytes |-> <<>>]
        /\ file_count(index) = Cardinality({kv.key : kv \in written})

\* "a" was added twice with different bytes, then "b"; get("a") is the second.
C5_Witness ==
    /\ phase = "sandbox"
    /\ arena = <<1, 2, 1>>
    /\ get(arena, index, <<"a">>) = [some |-> TRUE, bytes |-> <<2>>]
    /\ get(arena, index, <<"b">>) = [some |-> TRUE, bytes |-> <<1>>]
    /\ file_count(index) = 2

RECURSIVE BytesUpTo(_, _)
BytesUpTo(archive, i) ==
    IF i = 0 THEN 0 ELSE Len(archive[i].data) + BytesUpTo(archive, i - 1)

\* The archive or the fetch holds a cause for the error ingestion returned.
IngestErrorHasCause ==
    LET a == last.archive IN
    /\ last.res \in {"DownloadFailed", "ZipParseFailed", "InvalidPath", "FileTooLarge"}
    /\ last.res = "DownloadFailed" <=> last.fetch \in {"request", "status", "body"}
    /\ last.res = "ZipParseFailed" =>
          last.fetch = "zip" \/ \E i \in 1..Len(a) : a[i].fault # "none"
    /\ last.res = "InvalidPath" =>
          \E i \in 1..Len(a) : ~is_dir(a[i].name) /\ ~sanitize(stripped_path(a[i].name)).ok
    /\ last.res = "FileTooLarge" =>
          \E i \in 1..Len(a) : \/ Len(a[i].data) > max_file_size
                               \/ last.before + BytesUpTo(a, i) > max_total_size

\* Checked under SpecIngest.
\* C7: ingestion is all-or-nothing: when ingest_github_repo fails (download,
\* ZIP parsing, a path or a size cap) it returns that error and the caller is
\* left with no builder and can build no Sandbox; the entries added before
\* the failure are gone with it.
C7_IngestAllOrNothing ==
    /\ (last.op = "ingest" /\ last.res # "Ok") =>
          /\ phase = "dropped"
          /\ arena = <<>> /\ index = {}
          /\ IngestErrorHasCause
          /\ ~ENABLED (NextSandbox \/ NextIngest)
    /\ phase = "dropped" => (last.op = "ingest" /\ last.res # "Ok")

\* The archive's first entry was added, its second is a traversal.
C7_Witness ==
    /\ phase = "dropped"
    /\ last.res = "InvalidPath"
    /\ Len(last.archive) = 2
    /\ last.archive[1].name = <<"r", "/", "a">>
    /\ last.archive[2].name = <<"r", "/", ".", ".", "/", "a">>
    /\ last.before > 0

(***************************************************************************)
(* Claims about the chunker (checked under SpecChunk).                     *)
(***************************************************************************)
UnitTokens(i) == estimate_tokens(units[i].text)

\* The chunk is one line of an oversized unit, counted by its own estimate.
SingleLineOver(c, limit) ==
    /\ c.split /\ c.unit_count = 1
    /\ ~HasNewline(c.text)
    /\ UnitTokens(c.first_unit) > max_tokens
    /\ c.token_count = estimate_tokens(c.text)
    /\ c.token_count > limit

\* C8: every chunk has token_count <= max_tokens unless it is a single line
\* of an oversized unit whose own estimate exceeds max_tokens; two adjacent
\* units that each fit but together exceed max_tokens never share a chunk.
C8_ChunksWithinBudget ==
    chunked =>
        /\ \A j \in 1..Len(chunks) :
              chunks[j].token_count <= max_tokens \/ SingleLineOver(chunks[j], max_tokens)
        /\ \A i \in 1..(Len(units) - 1) :
              (/\ UnitTokens(i) <= max_tokens
               /\ UnitTokens(i + 1) <= max_tokens
               /\ UnitTokens(i) + UnitTokens(i + 1) > max_tokens)
              => ~\E j \in 1..Len(chunks) :
                     chunks[j].first_unit <= i /\ i + 1 <= chunks[j].last_unit

\* Two units of 3 tokens each under a budget of 3 came out as two chunks.
C8_Witness ==
    /\ chunked /\ max_tokens = 3
    /\ Len(units) = 2
    /\ UnitTokens(1) = 3 /\ UnitTokens(2) = 3
    /\ Len(chunks) = 2
    /\ chunks[1].unit_count = 1 /\ chunks[2].unit_count = 1
    /\ ~chunks[1].split /\ ~chunks[2].split

\* C9 as stated: every chunk has token_count <= 2 * max_tokens.
C9_ChunksWithinTwiceBudget ==
    chunked => \A j \in 1..Len(chunks) : chunks[j].token_count <= 2 * max_tokens

\* C9, amended: every chunk has token_count <= 2 * max_tokens unless it is a
\* single line of an oversized unit whose own estimate exceeds 2 * max_tokens.
C9_TwiceBudgetExceptLongLine ==
    chunked =>
        \A j \in 1..Len(chunks) :
            chunks[j].token_count <= 2 * max_tokens
            \/ SingleLineOver(chunks[j], 2 * max_tokens)

\* A unit of two lines under a budget of 1: the 12-byte line alone is a chunk
\* of 3 tokens, the 7-byte line a chunk of 1.
C9_Witness ==
    /\ chunked /\ max_tokens = 1
    /\ Len(units) = 1
    /\ Len(chunks) = 2
    /\ chunks[1].token_count = 3
    /\ chunks[2].token_count = 1

\* C10: a unit whose estimate exceeds max_tokens never shares a chunk: its
\* sub-chunks hold it alone, the chunks before and after it hold only other
\* units; a chunk that is not a sub-chunk is a run of consecutive units each
\* with estimate <= max_tokens (equal to max_tokens included), whose texts
\* it joins.
C10_LargeUnitNeverMerges ==
    chunked =>
        /\ \A j \in 1..Len(chunks) :
              LET c == chunks[j] IN
              /\ 1 <= c.first_unit /\ c.first_unit <= c.last_unit /\ c.last_unit <= Len(units)
              /\ IF c.split
                 THEN /\ c.first_unit = c.last_unit
                      /\ c.unit_count = 1
                      /\ UnitTokens(c.first_unit) > max_tokens
                      /\ c.start_offset = units[c.first_unit].start_offset
                 ELSE /\ c.unit_count = c.last_unit - c.first_unit + 1
                      /\ \A i \in c.first_unit..c.last_unit : UnitTokens(i) <= max_tokens
                      /\ c.text = Join([u \in 1..c.unit_count |->
                                           units[c.first_unit + u - 1].text], <<NL, NL>>)
        /\ \A j \in 1..(Len(chunks) - 1) :
              \/ chunks[j].last_unit < chunks[j + 1].first_unit
              \/ /\ chunks[j].split /\ chunks[j + 1].split
                 /\ chunks[j].first_unit = chunks[j + 1].first_unit
        /\ \A i \in 1..Len(units) :
              \E j \in 1..Len(chunks) :
                  /\ chunks[j].first_unit <= i /\ i <= chunks[j].last_unit
                  /\ chunks[j].split <=> UnitTokens(i) > max_tokens

\* small, oversized (two lines), small under a budget of 3: the small units
\* are chunks of their own around the two sub-chunks.
C10_Witness ==
    /\ chunked /\ max_tokens = 3
    /\ Len(units) = 3
    /\ UnitTokens(1) = 3 /\ UnitTokens(2) > 3 /\ UnitTokens(3) = 1
    /\ Len(chunks) = 4
    /\ ~chunks[1].split /\ chunks[2].split /\ chunks[3].split /\ ~chunks[4].split

(***************************************************************************)
(* Claims about UnknownParser (checked under SpecParse).                   *)
(***************************************************************************)
RECURSIVE ConcatTexts(_)
\* The texts of the units, one after the other.
ConcatTexts(us) == IF us = <<>> THEN <<>> ELSE Head(us).text \o ConcatTexts(Tail(us))

\* The units' [start_offset, end_offset) ranges follow one another from 0 to len.
UnitsPartition(us, len) ==
    IF us = <<>> THEN len = 0
    ELSE /\ us[1].start_offset = 0
         /\ \A i \in 1..(Len(us) - 1) : us[i + 1].start_offset = us[i].end_offset
         /\ us[Len(us)].end_offset = len

RECURSIVE CrLfToLf(_)
\* The text with every "\r\n" replaced by "\n".
CrLfToLf(t) ==
    IF t = <<>> THEN <<>>
    ELSE IF Len(t) >= 2 /\ t[1] = CR /\ t[2] = NL
         THEN <<NL>> \o CrLfToLf(SubSeq(t, 3, Len(t)))
    ELSE <<t[1]>> \o CrLfToLf(Tail(t))

\* The text with "\n" line endings throughout and after its last line.
Reattached(t) ==
    LET u == CrLfToLf(t) IN
    IF u = <<>> \/ u[Len(u)] = NL THEN u ELSE Append(u, NL)

\* C11 as stated: for valid UTF-8 input the unit texts concatenate to
\* normalized_text exactly and the unit ranges partition
\* [0, normalized_text.len).
C11_UnitsReconstructText ==
    (parsed /\ parse_result.metadata.is_utf8) =>
        /\ ConcatTexts(parse_result.semantic_units) = parse_result.normalized_text
        /\ UnitsPartition(parse_result.semantic_units, Len(parse_result.normalized_text))

\* C11 amended: for valid UTF-8 input the unit texts concatenate to the lines
\* of normalized_text each ended by "\n" (every "\r\n" became "\n" and the
\* last line got a "\n" if it had none), every unit's range is as long as its
\* text, and the ranges partition [0, length of that concatenation).
C11_UnitsReconstructLines ==
    (parsed /\ parse_result.metadata.is_utf8) =>
        LET us == parse_result.semantic_units
            t == Reattached(parse_result.normalized_text)
        IN  /\ ConcatTexts(us) = t
            /\ UnitsPartition(us, Len(t))
            /\ \A i \in 1..Len(us) : us[i].end_offset - us[i].start_offset = Len(us[i].text)

\* "x\nx" was parsed: two units, the second one ending at 4, past the 3 bytes.
C11_Witness ==
    /\ parsed
    /\ parse_bytes = <<"x", NL, "x">>
    /\ Len(parse_result.semantic_units) = 2
    /\ parse_result.semantic_units[2].end_offset = 4
    /\ Len(parse_result.normalized_text) = 3

(***************************************************************************)
(* Claims about ParserRegistry (checked under SpecRegistry).               *)
(***************************************************************************)
\* Path::extension() is Some: the file name has a dot after its first character.
HasExtension(path) ==
    LET name == file_name(path) IN \E i \in 2..Len(name) : name[i] = "."

\* The register calls made under a key, oldest first.
RegisteredUnder(key) == SelectSeq(registered, LAMBDA r : r.ext = key)

\* The register calls whose extension is the key in some letter case.
RegisteredAnyCase(key) == SelectSeq(registered, LAMBDA r : to_lowercase(r.ext) = key)

LastParser(calls) == calls[Len(calls)].parser

\* C12 as stated: select returns the parser most recently registered under
\* the lowercased extension of the path, and the fallback when nothing is
\* registered under it or the path has no extension.
C12_SelectLatestElseFallback ==
    selected # "none" =>
        LET calls == RegisteredUnder(to_lowercase(extension(select_path))) IN
        IF HasExtension(select_path) /\ calls # <<>>
        THEN selected = LastParser(calls)
        ELSE selected = registry.fallback

\* C12 amended: select looks up the lowercased extension of the path, the
\* empty string when the path has none; it returns the parser most recently
\* registered under exactly that string and the fallback when no parser is
\* registered under it.
C12_SelectLatestUnderKey ==
    selected # "none" =>
        LET calls == RegisteredUnder(to_lowercase(extension(select_path))) IN
        IF calls # <<>>
        THEN selected = LastParser(calls)
        ELSE selected = registry.fallback

\* "r" was registered twice and select("r.R") returned the second parser.
C12_Witness ==
    /\ registered = <<[ext |-> Chars("r"), parser |-> "Parser1"],
                      [ext |-> Chars("r"), parser |-> "Parser2"]>>
    /\ select_path = Chars("r.R")
    /\ selected = "Parser2"

\* C13: after register(ext, p), select(path) returns p for every path whose
\* extension equals ext whatever the letter case on either side (p being the
\* last parser registered under that extension in any case).
C13_CaseInsensitiveMatch ==
    (selected # "none" /\ HasExtension(select_path)) =>
        LET calls == RegisteredAnyCase(to_lowercase(extension(select_path))) IN
        calls # <<>> => selected = LastParser(calls)

(***************************************************************************)
(* Claims about EmbeddingClient (checked under SpecEmbed).                 *)
(***************************************************************************)
\* C14: whenever embed returns Ok(vectors), vectors is as long as texts and
\* vectors[i] is the embedding of texts[i], whatever 2xx response arrived.
C14_OkMatchesTexts ==
    embed_result.ok =>
        /\ Len(embed_result.val) = Len(embed_texts)
        /\ \A i \in 1..Len(embed_texts) : embed_result.val[i] = Embedding(embed_texts[i])

\* C15: every failure mode has its own error kind: a transport failure gives
\* RequestFailed, a non-2xx status ServerError with that status and the body,
\* a 2xx body that is not JSON of the expected shape InvalidResponse, and a
\* passed deadline Timeout.
C15_ErrorKindPerFailure ==
    (embed_result # EmbedPending /\ embed_texts # <<>>) =>
        /\ response.kind = "connect_failed" => embed_result.err = "RequestFailed"
        /\ response.kind = "send_timeout" => embed_result.err = "Timeout"
        /\ (response.kind = "response" /\ ~is_success(response.status)) =>
              /\ embed_result.err = "ServerError"
              /\ embed_result.status = response.status
              /\ response.body.shape # "unreadable" => embed_result.body = response.body.text
        /\ (response.kind = "response" /\ is_success(response.status)
               /\ response.body.shape = "malformed") =>
              embed_result.err = "InvalidResponse"

(***************************************************************************)
(* Claims about kmeans (checked under SpecKmeans and SpecKmeansTwice).     *)
(***************************************************************************)
KmOver(r) == runs[r].pc \in {"done", "panicked"}

\* The result has exactly k clusters, numbered 0..k-1 in order, each with a
\* centroid of the dimension of the input vectors.
KClustersInOrder(run) ==
    /\ Len(run.clusters) = k
    /\ \A c \in 1..Len(run.clusters) :
        /\ run.clusters[c].id = c - 1
        /\ \A i \in 1..Len(embeddings) :
              Len(run.clusters[c].centroid.num) = Len(embeddings[i])

RECURSIVE AllChunkIds(_)
\* The chunk_ids of the clusters, one after the other.
AllChunkIds(clusters) ==
    IF clusters = <<>> THEN <<>>
    ELSE Head(clusters).chunk_ids \o AllChunkIds(Tail(clusters))

\* C17: when kmeans returns, every index 0..n-1 is in the chunk_ids of
\* exactly one cluster, once, and no other value is in any chunk_ids.
C17_ChunkIdsPartitionInput ==
    runs[1].pc = "done" =>
        LET ids == AllChunkIds(runs[1].clusters) IN
        /\ \A i \in 0..(Len(embeddings) - 1) :
              Cardinality({j \in 1..Len(ids) : ids[j] = i}) = 1
        /\ \A j \in 1..Len(ids) : ids[j] \in 0..(Len(embeddings) - 1)

\* Three vectors ended up in two non-empty clusters.
C17_Witness ==
    /\ runs[1].pc = "done"
    /\ Len(embeddings) = 3
    /\ Len(runs[1].clusters) = 2
    /\ runs[1].clusters[1].chunk_ids # <<>>
    /\ runs[1].clusters[2].chunk_ids # <<>>

ReadBack == reader.state = "ok" /\ write_result = "ok"

Keys(table) == {row.key : row \in table}

\* C19: after write_to_file returned Ok, DocpackReader::open yields a store
\* with the rows each table of the writer had when it was written, every
\* embedding decodes to the float sequence that was inserted, bit for bit,
\* and the four counts of the manifest are the row counts of the tables.
C19_RoundTrip ==
    ReadBack =>
        /\ reader.db.files = db_at_write.db.files
        /\ reader.db.chunks = db_at_write.db.chunks
        /\ reader.db.embeddings = db_at_write.db.embeddings
        /\ reader.db.symbols = db_at_write.db.symbols
        /\ Keys(reader.db.embeddings) = Keys(db_at_write.vectors)
        /\ \A e \in db_at_write.vectors :
            /\ get_embedding(reader.db, e.key).some
            /\ get_embedding(reader.db, e.key).vector = e.value
        /\ reader.manifest.stats.file_count = Cardinality(reader.db.files)
        /\ reader.manifest.stats.chunk_count = Cardinality(reader.db.chunks)
        /\ reader.manifest.stats.embedding_count = Cardinality(reader.db.embeddings)
        /\ reader.manifest.stats.symbol_count = Cardinality(reader.db.symbols)

\* A docpack with a file, a chunk, a symbol and a two-float embedding
\* whose second float has four different bytes was written, and read back.
C19_Witness ==
    /\ ReadBack
    /\ Cardinality(reader.db.files) = 1
    /\ Cardinality(reader.db.chunks) = 1
    /\ Cardinality(reader.db.symbols) = 1
    /\ get_embedding(reader.db, "c1").vector = <<1065353216, 16909060>>

\* An output file that is not a whole docpack.
PartialZip ==
    /\ disk.zip.exists
    /\ ~(/\ disk.zip.finished
         /\ disk.zip.has_db
         /\ disk.zip.has_manifest
         /\ disk.zip.has_readme
         /\ disk.zip.has_assets)

\* C20 as stated: when write_to_file has failed, or stands at any step where
\* the run can be cancelled, there is no partial output ZIP at the output
\* path and no temporary database next to it.
C20_NoPartialStateOnFailure ==
    (write_result = "err" \/ wpc # "idle") =>
        /\ ~disk.tmp_db.exists
        /\ ~PartialZip

\* write_to_file was called on the writer and has returned.
WriteReturned == used.writes > 0 /\ wpc = "idle"

\* C21 as stated: once write_to_file has returned, no row is inserted through
\* the writer and write_to_file does not run on it again.
C21_WriterConsumed ==
    [][WriteReturned => (writer_db' = writer_db /\ used'.writes = used.writes)]_vars

(***************************************************************************)
(* Sandbox::walk_prefix and the frame of add_file                          *)
(***************************************************************************)
\* dir without the '/' characters at its end: the prefix of dir that does not
\* end in '/' and is followed by '/' only.
WithoutTrailingSlashes(dir) ==
    CHOOSE d \in {SubSeq(dir, 1, i) : i \in 0..Len(dir)} :
        /\ d = <<>> \/ d[Len(d)] # "/"
        /\ \A i \in (Len(d) + 1)..Len(dir) : dir[i] = "/"

\* path is d followed by '/' and anything.
IsUnder(path, d) ==
    /\ Len(path) > Len(d)
    /\ \A i \in 1..Len(d) : path[i] = d[i]
    /\ path[Len(d) + 1] = "/"

HasWalked == phase = "sandbox" /\ last.op = "walk_prefix"

PathsFound == {e.virtual_path : e \in last.found}

\* C22: walk_prefix(dir) returns exactly the entries whose virtual_path is
\* dir, without its trailing slashes, followed by '/'; s matches s/a and
\* s/p/b but neither s2/a nor the file s; walk_prefix("") returns every entry.
C22_WalkPrefixMatchesDirectory ==
    HasWalked =>
        /\ last.raw = <<>> => last.found = list(index)
        /\ last.raw # <<>> =>
              last.found = {e \in list(index) :
                               IsUnder(e.virtual_path, WithoutTrailingSlashes(last.raw))}
        /\ last.raw = <<"s">> =>
              /\ \A e \in list(index) :
                    e.virtual_path \in {<<"s", "/", "a">>, <<"s", "/", "p", "/", "b">>}
                    => e \in last.found
              /\ <<"s", "2", "/", "a">> \notin PathsFound
              /\ <<"s">> \notin PathsFound

\* walk_prefix("s/") over a sandbox that holds s, s/a and s2/a found s/a only.
C22_Witness ==
    /\ HasWalked
    /\ last.raw = <<"s", "/">>
    /\ {<<"s">>, <<"s", "/", "a">>, <<"s", "2", "/", "a">>} \subseteq {e.virtual_path : e \in list(index)}
    /\ PathsFound = {<<"s", "/", "a">>}

(***************************************************************************)
(* Batcher::split                                                          *)
(***************************************************************************)
RECURSIVE Concat(_)
Concat(slices) == IF slices = <<>> THEN <<>> ELSE Head(slices) \o Concat(Tail(slices))

\* C23: for batch_size >= 1, split returns slices that concatenate to the
\* items in order; every slice but the last has batch_size items, the last
\* has between 1 and batch_size, and no items give no slices.
C23_SplitIsContiguousBatches ==
    (batching.state # "new" /\ batching.batch_size >= 1) =>
        LET slices == batching.batches
            n == Len(slices)
        IN  /\ batching.state = "split"
            /\ Concat(slices) = batching.items
            /\ \A b \in 1..(n - 1) : Len(slices[b]) = batching.batch_size
            /\ n > 0 => Len(slices[n]) \in 1..batching.batch_size
            /\ batching.items = <<>> <=> n = 0

\* Four items in batches of three: a full slice and a slice of one.
C23_Witness ==
    /\ batching.state = "split"
    /\ batching.batch_size = 3
    /\ batching.items = <<"t1", "t2", "t2", "t1">>
    /\ batching.batches = << <<"t1", "t2", "t2">>, <<"t1">> >>

(***************************************************************************)
(* The chunks of chunk_semantic_units, field by field                      *)
(***************************************************************************)
RECURSIVE SumTokens(_, _)
\* The sum of the estimates of units first..lst.
SumTokens(first, lst) ==
    IF first > lst THEN 0 ELSE UnitTokens(first) + SumTokens(first + 1, lst)

MergedChunks == {j \in 1..Len(chunks) : ~chunks[j].split}
SplitChunks == {j \in 1..Len(chunks) : chunks[j].split}

\* C24: a chunk merged from a batch of units has the units' texts joined by
\* a blank line, the sum of the units' own estimates as token_count, the
\* first unit's start_offset, the last unit's end_offset, the set of the
\* units' kinds, and the number of units as unit_count.
C24_MergedChunkFields ==
    chunked =>
        \A j \in MergedChunks :
            LET c == chunks[j]
                batch == c.first_unit..c.last_unit
            IN  /\ batch # {}
                /\ c.text = Join([u \in 1..(c.last_unit - c.first_unit + 1) |->
                                     units[c.first_unit + u - 1].text], <<NL, NL>>)
                /\ c.token_count = SumTokens(c.first_unit, c.last_unit)
                /\ c.start_offset = units[c.first_unit].start_offset
                /\ c.end_offset = units[c.last_unit].end_offset
                /\ c.kinds = {units[i].kind : i \in batch}
                /\ c.unit_count = Cardinality(batch)

\* A 7-byte unit and an 8-byte unit of different kinds merged under a budget
\* of 3: 1 + 2 tokens, where the joined text of 17 bytes would estimate to 4.
C24_Witness ==
    /\ chunked /\ max_tokens = 3
    /\ Len(units) = 2 /\ Len(chunks) = 1
    /\ ~chunks[1].split
    /\ chunks[1].unit_count = 2
    /\ chunks[1].token_count = 3
    /\ estimate_tokens(chunks[1].text) = 4
    /\ Cardinality(chunks[1].kinds) = 2

\* C25: every sub-chunk of an oversized unit carries the unit's kind alone,
\* unit_count 1, the unit's start_offset and end_offset = start_offset + the
\* length of its text; an oversized unit gives at least one sub-chunk, and
\* the whole unit as one sub-chunk when it has no lines.
C25_SubChunkFields ==
    chunked =>
        /\ \A j \in SplitChunks :
              LET c == chunks[j]
                  unit == units[c.first_unit]
              IN  /\ c.kinds = {unit.kind}
                  /\ c.unit_count = 1
                  /\ c.start_offset = unit.start_offset
                  /\ c.end_offset = c.start_offset + Len(c.text)
        /\ \A i \in 1..Len(units) :
              UnitTokens(i) > max_tokens =>
                  /\ \E j \in SplitChunks : chunks[j].first_unit = i
                  /\ Lines(units[i].text) = <<>> =>
                        \E j \in SplitChunks :
                            /\ chunks[j].first_unit = i
                            /\ chunks[j].text = units[i].text
                            /\ \A h \in SplitChunks : chunks[h].first_unit = i => h = j

\* Under a budget of 0 a 7-byte unit, an empty unit and a unit of two lines:
\* the empty unit, which has no lines, came out whole, and the two sub-chunks
\* of the last unit both start where that unit starts.
C25_Witness ==
    /\ chunked /\ max_tokens = 0
    /\ Len(units) = 3 /\ Len(chunks) = 4
    /\ units[2].text = <<>> /\ units[3].start_offset = 7
    /\ chunks[2].split /\ chunks[2].first_unit = 2 /\ chunks[2].text = <<>>
    /\ chunks[3].first_unit = 3 /\ chunks[4].first_unit = 3
    /\ chunks[3].start_offset = 7 /\ chunks[4].start_offset = 7
    /\ chunks[3].end_offset = 14 /\ chunks[4].end_offset = 19

RECURSIVE SumUnitCount(_)
\* The sum of unit_count over the merged chunks with the given indices.
SumUnitCount(js) ==
    IF js = {} THEN 0
    ELSE LET j == CHOOSE x \in js : TRUE IN chunks[j].unit_count + SumUnitCount(js \ {j})

FittingUnits == {i \in 1..Len(units) : UnitTokens(i) <= max_tokens}

\* C29: every unit that fits max_tokens is in exactly one merged chunk;
\* chunks come in input order, the sub-chunks of an oversized unit between
\* the chunks of the units around it; the unit_count of the merged chunks
\* sum to the number of fitting units; the output is empty exactly when the
\* input is.
C29_NoUnitLostOrReordered ==
    chunked =>
        /\ \A i \in FittingUnits :
              Cardinality({j \in MergedChunks :
                              chunks[j].first_unit <= i /\ i <= chunks[j].last_unit}) = 1
        /\ \A i \in 1..Len(units) :
              i \notin FittingUnits =>
                  /\ \A j \in MergedChunks :
                        ~(chunks[j].first_unit <= i /\ i <= chunks[j].last_unit)
                  /\ \E j \in SplitChunks : chunks[j].first_unit = i
        /\ \A j \in 1..Len(chunks), h \in 1..Len(chunks) :
              j < h =>
                  \/ chunks[j].last_unit < chunks[h].first_unit
                  \/ /\ chunks[j].split /\ chunks[h].split
                     /\ chunks[j].first_unit = chunks[h].first_unit
        /\ SumUnitCount(MergedChunks) = Cardinality(FittingUnits)
        /\ chunks = <<>> <=> units = <<>>

\* Under a budget of 1: a fitting unit, an oversized unit of two lines and a
\* fitting unit came out as a merged chunk, two sub-chunks and a merged chunk.
C29_Witness ==
    /\ chunked /\ max_tokens = 1
    /\ Len(units) = 3 /\ Len(chunks) = 4
    /\ FittingUnits = {1, 3}
    /\ ~chunks[1].split /\ chunks[1].first_unit = 1
    /\ chunks[2].split /\ chunks[3].split
    /\ ~chunks[4].split /\ chunks[4].last_unit = 3

(***************************************************************************)
(* kmeans: rounds and centroids                                            *)
(***************************************************************************)
\* The assignments before round t of the first call: all zero before round 1.
AssignedBefore(t) ==
    IF t = 1 THEN [i \in 1..Len(embeddings) |-> 0] ELSE runs[1].rounds[t - 1]

\* C26: kmeans makes at most max_iters assignment rounds, stops after the
\* first round that changes no assignment, and returns the number of rounds
\* it made as iterations.
C26_RoundsUntilConvergence ==
    LET run == runs[1]
        made == Len(run.rounds)
    IN  /\ made <= max_iters
        /\ run.pc \in {"build", "done"} =>
              /\ run.iterations = made
              /\ \A t \in 1..(made - 1) : run.rounds[t] # AssignedBefore(t)
              /\ made < max_iters => (made >= 1 /\ run.rounds[made] = AssignedBefore(made))

\* With max_iters = 2 and two clusters, a call returned after one round: it
\* left every vector in cluster 0.
C26_Witness ==
    /\ runs[1].pc = "done"
    /\ max_iters = 2 /\ k = 2 /\ Len(embeddings) >= 2
    /\ runs[1].iterations = 1
    /\ Len(runs[1].rounds) = 1

\* Two centroids are the same vector of rationals.
SameCentroid(a, b) ==
    /\ Len(a.num) = Len(b.num)
    /\ \A i \in 1..Len(a.num) : a.num[i] * b.den = b.num[i] * a.den

\* The centroids before the last update of the first call, the initial
\* centers when there was no update.
BeforeLastUpdate == IF runs[1].previous = <<>> THEN runs[1].initial ELSE runs[1].previous

\* C27 as stated: on return, the centroid of every cluster with a member is
\* the component-wise mean of its members, and a cluster without members
\* carries the centroid it had before the last update.
C27_CentroidIsMeanOfMembers ==
    runs[1].pc = "done" =>
        \A c \in 1..Len(runs[1].clusters) :
            LET members == Members(embeddings, runs[1].assignments, c - 1)
                centroid == runs[1].clusters[c].centroid
            IN  IF members # <<>>
                THEN SameCentroid(centroid, Centroid(SumVectors(members), Len(members)))
                ELSE SameCentroid(centroid, BeforeLastUpdate[c])

(***************************************************************************)
(* The frame of a failed add_file                                          *)
(***************************************************************************)
\* The step is a call of add_file on the builder that returned an error.
AddFileFailed ==
    /\ phase = "builder" /\ phase' = "builder"
    /\ last'.op = "add_file"
    /\ last'.res \in {"InvalidPath", "FileTooLarge"}

\* C28: a call of add_file that returns InvalidPath or FileTooLarge leaves
\* arena and index (and the two limits) as they were: all that a later call
\* of add_file reads, so it returns what it would have returned, with the
\* same offsets, without the failed call.
C28_FailedAddFileChangesNothing ==
    [][AddFileFailed =>
          /\ arena' = arena
          /\ index' = index
          /\ max_file_size' = max_file_size
          /\ max_total_size' = max_total_size]_vars

\* A call was rejected as too large by a builder that already holds a file
\* of two bytes.
C28_Witness ==
    /\ phase = "builder"
    /\ last.op = "add_file" /\ last.res = "FileTooLarge"
    /\ index # {} /\ Len(arena) = 2

(***************************************************************************)
(* The manifest's total_size_bytes                                         *)
(***************************************************************************)
\* C30: total_size_bytes is 0 in the writer's manifest, in the manifest.json
\* of every docpack written and in the manifest a reader loads from it,
\* whatever files were inserted.
C30_TotalSizeBytesStaysZero ==
    /\ manifest.stats.total_size_bytes = 0
    /\ disk.zip.has_manifest => disk.zip.manifest.stats.total_size_bytes = 0
    /\ reader.state = "ok" => reader.manifest.stats.total_size_bytes = 0

\* A docpack that counts one file, of one byte, was written and read back
\* with total_size_bytes 0.
C30_Witness ==
    /\ ReadBack
    /\ reader.manifest.stats.file_count = 1
    /\ \E row \in reader.db.files : row.value.size = 1
    /\ reader.manifest.stats.total_size_bytes = 0

====
